---- MODULE Spec2Model ----
(***************************************************************************)
(* A model of the wasm-rust interpreter: the value and stack model, the    *)
(* linear memory, the instruction handlers and the execution loops of      *)
(* Block::execute, Call::execute, Function::call and Module::call.         *)
(*                                                                         *)
(* A 64-bit payload is kept as two 32-bit words (lo, hi), each a signed    *)
(* 32-bit integer, so that every word fits the checker's integers.         *)
(***************************************************************************)
EXTENDS Integers, Naturals, Sequences, FiniteSets, TLC

(***************************************************************************)
(* Bounds of the model.                                                    *)
(***************************************************************************)
\* deepest nesting of structured blocks in the generated programs
MaxDepth == 3
\* deepest chain of Function::call activations that is explored
MaxFrames == 4

(***************************************************************************)
(* 32-bit words.                                                           *)
(***************************************************************************)
I32_MIN == -2147483647 - 1

\* the 16-bit halves of a signed 32-bit word, each in 0..65535
Lo16(x) == x % 65536
Hi16(x) == (x \div 65536) % 65536

\* the signed 32-bit word with the given 16-bit halves
FromHalves(h, l) == (IF h >= 32768 THEN h - 65536 ELSE h) * 65536 + l

\* an addition that saturates at the ends of the i32 range
wrapping_add_Saturating(a, b) ==
    IF a > 0 /\ b > 0 /\ a > (-(I32_MIN + 1)) - b THEN -(I32_MIN + 1)
    ELSE IF a < 0 /\ b < 0 /\ a < I32_MIN - b THEN I32_MIN
    ELSE a + b

\* i32::wrapping_add
wrapping_add(a, b) ==
    LET l == Lo16(a) + Lo16(b)
        h == (Hi16(a) + Hi16(b) + (l \div 65536)) % 65536
    IN  FromHalves(h, l % 65536)

\* i32::wrapping_sub: a + (!b + 1)
wrapping_sub(a, b) == wrapping_add(wrapping_add(a, (-1) - b), 1)

\* a checked division that knows the zero divisor only: MIN / -1 wraps
checked_div_ZeroOnly(a, b) ==
    IF b = 0 THEN [some |-> FALSE, v |-> 0]
    ELSE IF b = -1 THEN [some |-> TRUE, v |-> IF a = I32_MIN THEN a ELSE -a]
    ELSE LET q == a \div b
         IN  [some |-> TRUE,
              v |-> IF ((a < 0) # (b < 0)) /\ (q + 1) * b # a + b THEN q + 1 ELSE q]

\* i32::checked_div: truncating division; None on a zero divisor and on
\* MIN / -1
checked_div(a, b) ==
    IF b = 0 \/ (a = I32_MIN /\ b = -1) THEN [some |-> FALSE, v |-> 0]
    ELSE LET q == a \div b
         IN  [some |-> TRUE,
              v |-> IF ((a < 0) # (b < 0)) /\ (q + 1) * b # a + b THEN q + 1 ELSE q]

\* i32::wrapping_rem for a non-zero divisor: MIN % -1 wraps to 0
wrapping_rem(a, b) ==
    IF a = I32_MIN /\ b = -1 THEN 0
    ELSE a - checked_div(a, b).v * b

\* byte k (0 = least significant) of a signed 32-bit word
ByteOf(x, k) ==
    CASE k = 0 -> x % 256
      [] k = 1 -> (x \div 256) % 256
      [] k = 2 -> (x \div 65536) % 256
      [] k = 3 -> (x \div 16777216) % 256

\* the signed 32-bit word whose bytes are b3 (most significant) .. b0
WordOf(b3, b2, b1, b0) ==
    (IF b3 >= 128 THEN b3 - 256 ELSE b3) * 16777216 + b2 * 65536 + b1 * 256 + b0

(***************************************************************************)
(* Integers of 32 and 64 bits as byte vectors: a sequence of 4 or 8 bytes, *)
(* the least significant first.  The operators below work for either      *)
(* width; they are the integer methods both arms of IBinOp::execute call.  *)
(***************************************************************************)
I32_MAX == -(I32_MIN + 1)

\* the bytes of an i32, and of an i64 given as its low and high words
Bytes32(x) == <<ByteOf(x, 0), ByteOf(x, 1), ByteOf(x, 2), ByteOf(x, 3)>>
Bytes64(lo, hi) == Bytes32(lo) \o Bytes32(hi)

\* the signed 32-bit word made of bytes 4w+1 .. 4w+4 of a byte vector
Word32(b, w) == WordOf(b[4 * w + 4], b[4 * w + 3], b[4 * w + 2], b[4 * w + 1])

BV_zero(n) == [i \in 1..n |-> 0]
BV_not(a) == [i \in 1..Len(a) |-> 255 - a[i]]

\* bit i (0 = least significant) of a byte vector, and its sign bit
BV_bit(a, i) == (a[(i \div 8) + 1] \div (2 ^ (i % 8))) % 2
BV_sign(a) == BV_bit(a, 8 * Len(a) - 1)

\* the byte vector of n bytes that is 2^c
BV_pow2(n, c) == [i \in 1..n |-> IF i = (c \div 8) + 1 THEN 2 ^ (c % 8) ELSE 0]

RECURSIVE BV_adc(_, _, _, _, _)
\* a + b + carry, byte by byte from byte i on; the result has one byte more
\* than a, the last one the carry out
BV_adc(a, b, i, carry, acc) ==
    IF i > Len(a) THEN Append(acc, carry)
    ELSE BV_adc(a, b, i + 1, (a[i] + b[i] + carry) \div 256,
                Append(acc, (a[i] + b[i] + carry) % 256))

\* wrapping_add, wrapping_sub, wrapping_neg of either width
BV_add(a, b) == SubSeq(BV_adc(a, b, 1, 0, << >>), 1, Len(a))
BV_sub(a, b) == SubSeq(BV_adc(a, BV_not(b), 1, 1, << >>), 1, Len(a))
BV_neg(a) == BV_sub(BV_zero(Len(a)), a)

\* a >= b as unsigned integers: the subtraction does not borrow
BV_geu(a, b) == BV_adc(a, BV_not(b), 1, 1, << >>)[Len(a) + 1] = 1

RECURSIVE BV_mul_digit(_, _, _, _, _)
\* a * d for one byte d, from byte i of a on, cut to the width of a
BV_mul_digit(a, d, i, carry, acc) ==
    IF i > Len(a) THEN acc
    ELSE BV_mul_digit(a, d, i + 1, (a[i] * d + carry) \div 256,
                      Append(acc, (a[i] * d + carry) % 256))

RECURSIVE BV_mul_from(_, _, _, _)
\* wrapping_mul: the sum over the bytes b[i] of (a * b[i]) << 8(i - 1)
BV_mul_from(a, b, i, acc) ==
    IF i > Len(a) THEN acc
    ELSE BV_mul_from(a, b, i + 1,
                     BV_add(acc, SubSeq(BV_zero(i - 1) \o BV_mul_digit(a, b[i], 1, 0, << >>),
                                        1, Len(a))))

BV_mul(a, b) == BV_mul_from(a, b, 1, BV_zero(Len(a)))

RECURSIVE BV_digit(_, _, _, _)
\* the largest d in 0..255 with d * b <= r, found bit by bit from 2^k down
BV_digit(r, b, k, d) ==
    IF k < 0 THEN d
    ELSE IF BV_geu(r, BV_mul_digit(b, d + 2 ^ k, 1, 0, << >>))
    THEN BV_digit(r, b, k - 1, d + 2 ^ k)
    ELSE BV_digit(r, b, k - 1, d)

RECURSIVE BV_divmod_from(_, _, _, _, _)
\* unsigned long division, byte by byte from byte i of the dividend down,
\* for a divisor that is not zero; the remainder and the divisor are kept
\* one byte wider than the operands
BV_divmod_from(a, b, i, q, r) ==
    IF i = 0 THEN [q |-> q, r |-> SubSeq(r, 1, Len(a))]
    ELSE LET r2 == <<a[i]>> \o SubSeq(r, 1, Len(a))
             d == BV_digit(r2, b, 7, 0)
         IN  BV_divmod_from(a, b, i - 1, [q EXCEPT ![i] = d],
                            BV_sub(r2, BV_mul_digit(b, d, 1, 0, << >>)))

BV_divmod_u(a, b) ==
    BV_divmod_from(a, Append(b, 0), Len(a), BV_zero(Len(a)), BV_zero(Len(a) + 1))

BV_is_zero(a) == \A i \in 1..Len(a) : a[i] = 0
BV_is_minus_one(a) == \A i \in 1..Len(a) : a[i] = 255
BV_is_min(a) == \A i \in 1..Len(a) : a[i] = IF i = Len(a) THEN 128 ELSE 0
BV_abs(a) == IF BV_sign(a) = 1 THEN BV_neg(a) ELSE a

\* the signed quotient (towards zero) and remainder (sign of the dividend)
\* for a divisor that is not zero, wrapping on MIN / -1
BV_divmod_s(a, b) ==
    LET d == BV_divmod_u(BV_abs(a), BV_abs(b))
    IN  [q |-> IF BV_sign(a) # BV_sign(b) THEN BV_neg(d.q) ELSE d.q,
         r |-> IF BV_sign(a) = 1 THEN BV_neg(d.r) ELSE d.r]

\* shifts and rotates by a count c below the width: a shift left multiplies
\* by 2^c, an unsigned shift right divides by it, a signed one keeps the sign
BV_shl(a, c) == BV_mul(a, BV_pow2(Len(a), c))
BV_shr_u(a, c) == BV_divmod_u(a, BV_pow2(Len(a), c)).q
BV_shr_s(a, c) ==
    IF BV_sign(a) = 1 THEN BV_not(BV_shr_u(BV_not(a), c)) ELSE BV_shr_u(a, c)
BV_rotl(a, c) ==
    IF c = 0 THEN a ELSE BV_add(BV_shl(a, c), BV_shr_u(a, 8 * Len(a) - c))
BV_rotr(a, c) ==
    IF c = 0 THEN a ELSE BV_add(BV_shr_u(a, c), BV_shl(a, 8 * Len(a) - c))

\* a shift count that saturates at the width less one
BV_count_Saturating(k) ==
    IF k[1] >= 8 * Len(k) \/ \E i \in 2..4 : k[i] # 0
    THEN 8 * Len(k) - 1
    ELSE k[1]

\* the shift count as the code takes it: `val_1 as u32` keeps the low 32
\* bits, and wrapping_shl / wrapping_shr / rotate_* use it modulo the width
BV_count(k) == k[1] % (8 * Len(k))

\* bitwise and, or, xor of two bytes
Byte_bits(x) == [i \in 0..7 |-> (x \div (2 ^ i)) % 2]
Byte_and(x, y) ==
    LET bx == Byte_bits(x)
        by == Byte_bits(y)
    IN  bx[0] * by[0] + 2 * bx[1] * by[1] + 4 * bx[2] * by[2] + 8 * bx[3] * by[3]
        + 16 * bx[4] * by[4] + 32 * bx[5] * by[5] + 64 * bx[6] * by[6]
        + 128 * bx[7] * by[7]

\* the `calc` of IBinOp::execute on the bytes of the operands: the bytes of
\* the result, or the early return of Trap(UndefinedDivision)
BV_calc(op_type, a, b) ==
    CASE op_type = "Add" -> [trap |-> FALSE, v |-> BV_add(a, b)]
      [] op_type = "Sub" -> [trap |-> FALSE, v |-> BV_sub(a, b)]
      [] op_type = "Mul" -> [trap |-> FALSE, v |-> BV_mul(a, b)]
      [] op_type = "DivS" ->
            IF BV_is_zero(b) \/ (BV_is_min(a) /\ BV_is_minus_one(b))
            THEN [trap |-> TRUE, v |-> a]
            ELSE [trap |-> FALSE, v |-> BV_divmod_s(a, b).q]
      [] op_type = "DivU" ->
            IF BV_is_zero(b) THEN [trap |-> TRUE, v |-> a]
            ELSE [trap |-> FALSE, v |-> BV_divmod_u(a, b).q]
      [] op_type = "RemS" ->
            IF BV_is_zero(b) THEN [trap |-> TRUE, v |-> a]
            ELSE [trap |-> FALSE, v |-> BV_divmod_s(a, b).r]
      [] op_type = "RemU" ->
            IF BV_is_zero(b) THEN [trap |-> TRUE, v |-> a]
            ELSE [trap |-> FALSE, v |-> BV_divmod_u(a, b).r]
      [] op_type = "And" ->
            [trap |-> FALSE, v |-> [i \in 1..Len(a) |-> Byte_and(a[i], b[i])]]
      [] op_type = "Or" ->
            [trap |-> FALSE,
             v |-> [i \in 1..Len(a) |-> a[i] + b[i] - Byte_and(a[i], b[i])]]
      [] op_type = "Xor" ->
            [trap |-> FALSE,
             v |-> [i \in 1..Len(a) |-> a[i] + b[i] - 2 * Byte_and(a[i], b[i])]]
      [] op_type = "Shl" -> [trap |-> FALSE, v |-> BV_shl(a, BV_count(b))]
      [] op_type = "ShrS" -> [trap |-> FALSE, v |-> BV_shr_s(a, BV_count(b))]
      [] op_type = "ShrU" -> [trap |-> FALSE, v |-> BV_shr_u(a, BV_count(b))]
      [] op_type = "Rotl" -> [trap |-> FALSE, v |-> BV_rotl(a, BV_count(b))]
      [] op_type = "Rotr" -> [trap |-> FALSE, v |-> BV_rotr(a, BV_count(b))]

(***************************************************************************)
(* PrimitiveType and Value.  A Value is a tag and the 64 bits of the union *)
(* InternalValue.  Writing the i32 or f32 member initialises the low word  *)
(* only: hi_init is FALSE while the high word holds no written value.      *)
(***************************************************************************)
PrimitiveType == {"I32", "I64", "F32", "F64"}

\* Value::new / Value::from(x): tag and payload taken from a typed scalar
Value_new(t, lo, hi) ==
    IF t \in {"I32", "F32"}
    THEN [t |-> t, lo |-> lo, hi |-> 0, hi_init |-> FALSE]
    ELSE [t |-> t, lo |-> lo, hi |-> hi, hi_init |-> TRUE]

\* Value::from_explicit_type(t, v: u64): all 64 bits written
from_explicit_type(t, lo, hi) == [t |-> t, lo |-> lo, hi |-> hi, hi_init |-> TRUE]

\* `calc as u64` of an i32: sign extension into the high word
SignExtend(x) == IF x < 0 THEN -1 ELSE 0

\* Value::from(&PrimitiveType): the zero of a type
Value_zero(t) == Value_new(t, 0, 0)

\* Value::as_i32_unchecked
as_i32_unchecked(v) == v.lo

\* the high words a read of an unwritten high word may yield
UninitWords == {0, -1, 1}

\* Value::as_i64_unchecked: the (lo, hi) pairs the read can yield
as_i64_unchecked(v) ==
    IF v.hi_init THEN {<<v.lo, v.hi>>}
    ELSE {<<v.lo, h>> : h \in UninitWords}

(***************************************************************************)
(* Results and control tokens.                                             *)
(***************************************************************************)
\* Result<ControlInfo, Error> of Instruction::execute; "NoRet" stands for
\* "no instruction result is waiting to be matched".
Token(kind, depth, what) == [kind |-> kind, depth |-> depth, what |-> what]
NoRet == Token("NoRet", 0, "")
CI_None == Token("None", 0, "")
CI_Branch(d) == Token("Branch", d, "")
CI_Return == Token("Return", 0, "")
CI_Trap(k) == Token("Trap", 0, k)
Err(e) == Token("Err", 0, e)
\* a panic (abort of the process) raised inside a handler
Panic(why) == Token("Panic", 0, why)

(***************************************************************************)
(* Stack.                                                                  *)
(***************************************************************************)
\* Stack::new
Stack_new == << >>

\* Stack::push_value
push_value(stack, v) == Append(stack, v)

\* Stack::pop_value: Err(StackViolation) on an empty stack
pop_value(stack) ==
    IF Len(stack) = 0
    THEN [ok |-> FALSE, v |-> Value_zero("I32"), stack |-> stack]
    ELSE [ok |-> TRUE, v |-> stack[Len(stack)], stack |-> SubSeq(stack, 1, Len(stack) - 1)]

\* Stack::assert_empty
assert_empty(stack) == Len(stack) = 0

\* TryFrom<Value> for u32: only an I32 converts; `x.v.i32 as u32` keeps the
\* 32 bits, so u is the same word (a word below 0 stands for word + 2^32)
try_u32(v) == [ok |-> v.t = "I32", u |-> v.lo]

(***************************************************************************)
(* Linear memory.  `bytes` is the backing Vec<u8>: its length and, as a    *)
(* function, the non-zero bytes (every other index below the length holds  *)
(* zero).                                                                  *)
(***************************************************************************)
PAGE_SIZE == 65536

NoBytes == [i \in {} |-> 0]

\* #[derive(Default)] for Memory: what a Module holds before add_memory
Memory_default ==
    [len |-> 0, bytes |-> NoBytes, virtual_size_pages |-> 0, upper_limit_pages |-> 0]

\* self.bytes[i] for an index below the length
ByteAt(mem, i) == IF i \in DOMAIN mem.bytes THEN mem.bytes[i] ELSE 0

\* byte j (0 = least significant) of the u64 (lo, hi); value >>= 8 leaves 0
\* once all eight bytes are shifted out
ValueByte(lo, hi, j) ==
    IF j < 4 THEN ByteOf(lo, j) ELSE IF j < 8 THEN ByteOf(hi, j - 4) ELSE 0

\* Every buffer and virtual size of the model is shorter than FarAddress
\* bytes.  A u64 address at or beyond FarAddress is held as FarAddress: it
\* compares with every length and every virtual size as the address does.
FarAddress == PAGE_SIZE * 16384

\* `u as u64 + self.offset as u64` for the u32 words u and offset: the sum
\* of two numbers below 2^32 in 64 bits, added in 16-bit halves
effective_address(u, offset) ==
    LET low == Lo16(u) + Lo16(offset)
        pages == Hi16(u) + Hi16(offset) + (low \div 65536)
    IN  IF pages >= FarAddress \div PAGE_SIZE THEN FarAddress
        ELSE pages * PAGE_SIZE + (low % 65536)

\* Memory_write that refuses a write ending exactly at the virtual size
Memory_write_StrictBound(mem, lo, hi, bitwidth, address) ==
    IF bitwidth % 8 # 0 THEN [res |-> "Panic", mem |-> mem]
    ELSE
    LET bytes_to_write == bitwidth \div 8
        last_write_address == address + bytes_to_write
    IN  IF last_write_address >= PAGE_SIZE * mem.virtual_size_pages
        THEN [res |-> "None", mem |-> mem]
        ELSE
        LET newlen == IF mem.len = 0 \/ last_write_address > mem.len - 1
                      THEN last_write_address + 1
                      ELSE mem.len
            W == address .. (address + bytes_to_write - 1)
            nb(i) == ValueByte(lo, hi, address + bytes_to_write - 1 - i)
            dom == (DOMAIN mem.bytes \ W) \cup {i \in W : nb(i) # 0}
        IN  [res |-> "Some",
             mem |-> [mem EXCEPT !.len = newlen,
                                 !.bytes = [i \in dom |-> IF i \in W THEN nb(i)
                                                          ELSE mem.bytes[i]]]]

\* Memory_write that grows the Vec and stores nothing: the bytes written
\* never reach the memory that later reads see
Memory_write_ResizeOnly(mem, lo, hi, bitwidth, address) ==
    IF bitwidth % 8 # 0 THEN [res |-> "Panic", mem |-> mem]
    ELSE
    LET bytes_to_write == bitwidth \div 8
        last_write_address == address + bytes_to_write
    IN  IF last_write_address > PAGE_SIZE * mem.virtual_size_pages
        THEN [res |-> "None", mem |-> mem]
        ELSE [res |-> "Some",
              mem |-> [mem EXCEPT !.len = IF mem.len = 0 \/ last_write_address > mem.len - 1
                                          THEN last_write_address + 1
                                          ELSE mem.len]]

\* Memory::write.  res is "Some", "None" (out of bounds) or "Panic".
Memory_write(mem, lo, hi, bitwidth, address) ==
    IF bitwidth % 8 # 0 THEN [res |-> "Panic", mem |-> mem]
    ELSE
    LET bytes_to_write == bitwidth \div 8
        last_write_address == address + bytes_to_write
    IN  IF last_write_address > PAGE_SIZE * mem.virtual_size_pages
        THEN [res |-> "None", mem |-> mem]
        ELSE
        LET newlen == IF mem.len = 0 \/ last_write_address > mem.len - 1
                      THEN last_write_address + 1
                      ELSE mem.len
            W == address .. (address + bytes_to_write - 1)
            \* the loop runs from the highest address down, storing the low
            \* byte of value first
            nb(i) == ValueByte(lo, hi, address + bytes_to_write - 1 - i)
            dom == (DOMAIN mem.bytes \ W) \cup {i \in W : nb(i) # 0}
        IN  [res |-> "Some",
             mem |-> [mem EXCEPT !.len = newlen,
                                 !.bytes = [i \in dom |-> IF i \in W THEN nb(i)
                                                          ELSE mem.bytes[i]]]]

\* Memory::new(min, max): the constructor ends with a write of
\* PAGE_SIZE * min, 32 bits wide, at address 4
Memory_new(min, max) ==
    Memory_write([len |-> 0, bytes |-> NoBytes,
                  virtual_size_pages |-> min, upper_limit_pages |-> max],
                 PAGE_SIZE * min, 0, 32, 4).mem

\* Memory_read that takes the byte at the lowest address as the least
\* significant one
Memory_read_LittleEndian(mem, result_type, bitwidth, address) ==
    LET bytes_to_read == bitwidth \div 8
        R == address .. (address + bytes_to_read - 1)
        sig(j) == IF j < bytes_to_read THEN ByteAt(mem, address + j) ELSE 0
    IN  IF \E i \in R : i >= mem.len
        THEN [res |-> "Panic", v |-> Value_zero(result_type)]
        ELSE [res |-> "Some",
              v |-> from_explicit_type(result_type,
                                       WordOf(sig(3), sig(2), sig(1), sig(0)),
                                       WordOf(sig(7), sig(6), sig(5), sig(4)))]

\* Memory::read.  The loop indexes self.bytes without a bounds check against
\* the virtual size: an index at or past the length of the Vec panics.
\* res is "Some" or "Panic".
Memory_read(mem, result_type, bitwidth, address) ==
    LET bytes_to_read == bitwidth \div 8
        R == address .. (address + bytes_to_read - 1)
        \* the byte that ends up at significance j of `result`
        sig(j) == IF j < bytes_to_read
                  THEN ByteAt(mem, address + bytes_to_read - 1 - j) ELSE 0
    IN  IF \E i \in R : i >= mem.len
        THEN [res |-> "Panic", v |-> Value_zero(result_type)]
        ELSE [res |-> "Some",
              v |-> from_explicit_type(result_type,
                                       WordOf(sig(3), sig(2), sig(1), sig(0)),
                                       WordOf(sig(7), sig(6), sig(5), sig(4)))]

(***************************************************************************)
(* Instructions: one record shape for every struct of wasm/inst.rs, built  *)
(* by the operators named after the structs.                               *)
(***************************************************************************)
Inst(op, value, index, bitwidth, offset, t, kind, instructions) ==
    [op |-> op, value |-> value, index |-> index, bitwidth |-> bitwidth,
     offset |-> offset, t |-> t, kind |-> kind, instructions |-> instructions]

Const(value) == Inst("Const", value, 0, 0, 0, value.t, "", << >>)
IBinOp(result_type, op_type) ==
    Inst("IBinOp", Value_zero("I32"), 0, 0, 0, result_type, op_type, << >>)
LocalGet(index) == Inst("LocalGet", Value_zero("I32"), index, 0, 0, "I32", "", << >>)
LocalSet(index) == Inst("LocalSet", Value_zero("I32"), index, 0, 0, "I32", "", << >>)
LocalTee(index) == Inst("LocalTee", Value_zero("I32"), index, 0, 0, "I32", "", << >>)
Load(result_type, load_bitwidth, offset) ==
    Inst("Load", Value_zero("I32"), 0, load_bitwidth, offset, result_type, "", << >>)
Store(bitwidth, offset) ==
    Inst("Store", Value_zero("I32"), 0, bitwidth, offset, "I32", "", << >>)
Branch(branch_index) ==
    Inst("Branch", Value_zero("I32"), branch_index, 0, 0, "I32", "", << >>)
BranchIf(branch_index) ==
    Inst("BranchIf", Value_zero("I32"), branch_index, 0, 0, "I32", "", << >>)
Call(function_index) ==
    Inst("Call", Value_zero("I32"), function_index, 0, 0, "I32", "", << >>)
Return == Inst("Return", Value_zero("I32"), 0, 0, 0, "I32", "", << >>)
\* op_type is a RelOpType with its Signedness: "Eq", "Neq", "LtS", "LtU", ...
RelOp(arg_type, op_type) ==
    Inst("RelOp", Value_zero("I32"), 0, 0, 0, arg_type, op_type, << >>)
\* op_type is "Wrap", "ExtendS" or "ExtendU" (the integer CvtOpTypes)
CvtOp(op_type) == Inst("CvtOp", Value_zero("I32"), 0, 0, 0, "I32", op_type, << >>)
\* CvtOpType::Convert(signedness, src, dst): signedness is "ConvertS" or
\* "ConvertU", the float dst is kept as its width
Convert(signedness, src, dst) ==
    Inst("CvtOp", Value_zero("I32"), 0, IF dst = "F32" THEN 32 ELSE 64, 0, src,
         signedness, << >>)
\* continuation is "Loop" or "Branch" (BlockContinuation)
Block(continuation, instructions) ==
    Inst("Block", Value_zero("I32"), 0, 0, 0, "I32", continuation, instructions)

\* the parser's i32.const: Const::new(Value::new(x))
I32Const(x) == Const(Value_new("I32", x, 0))

\* the parser's i64.const: Const::new(Value::new(x)) for an i64 x
I64Const(lo, hi) == Const(Value_new("I64", lo, hi))

\* Function: its type, the declared locals and the body
Function(params, returns, local_types, instructions) ==
    [params |-> params, returns |-> returns, local_types |-> local_types,
     instructions |-> instructions]

num_params(f) == Len(f.params)

\* Export: the kind and the index
Export(kind, index) == [kind |-> kind, index |-> index]

\* an add_export that replaces the export of a name already present
add_export_Overwrites(exports_, name, export) ==
    [ok |-> name \notin DOMAIN exports_,
     err |-> IF name \in DOMAIN exports_ THEN "UnexpectedData" ELSE "",
     exports |-> [n \in DOMAIN exports_ \cup {name} |->
                     IF n = name THEN export ELSE exports_[n]]]

\* Module::add_export: the Result and the export map after the call
add_export(exports_, name, export) ==
    IF name \in DOMAIN exports_
    THEN [ok |-> FALSE, err |-> "UnexpectedData", exports |-> exports_]
    ELSE [ok |-> TRUE, err |-> "",
          exports |-> [n \in DOMAIN exports_ \cup {name} |->
                          IF n = name THEN export ELSE exports_[n]]]

(***************************************************************************)
(* Instruction::execute, one operator per struct.  Each yields the set of  *)
(* results the handler can produce: the Result<ControlInfo, Error> (or a   *)
(* panic) with the stack, the memory and the locals it leaves.             *)
(***************************************************************************)
Res(tok, stack, memory, locals) ==
    [tok |-> tok, stack |-> stack, memory |-> memory, locals |-> locals]

\* Const::execute
Const_execute(inst, stack, memory, locals) ==
    {Res(CI_None, push_value(stack, inst.value), memory, locals)}

\* the `calc` of IBinOp::execute for result type I32: the word, or the
\* early return of Trap(UndefinedDivision)
IBinOp_calc(op_type, val_0, val_1) ==
    CASE op_type = "Add" -> [trap |-> FALSE, v |-> wrapping_add(val_0, val_1)]
      [] op_type = "Sub" -> [trap |-> FALSE, v |-> wrapping_sub(val_0, val_1)]
      [] op_type = "DivS" ->
            [trap |-> ~checked_div(val_0, val_1).some, v |-> checked_div(val_0, val_1).v]
      [] op_type = "RemS" ->
            IF val_1 = 0 THEN [trap |-> TRUE, v |-> 0]
            ELSE [trap |-> FALSE, v |-> wrapping_rem(val_0, val_1)]
      [] OTHER ->
            LET c == BV_calc(op_type, Bytes32(val_0), Bytes32(val_1))
            IN  [trap |-> c.trap, v |-> Word32(c.v, 0)]

\* the `calc` of IBinOp::execute for result type I64, on <<lo, hi>> pairs
IBinOp_calc64(op_type, val_0, val_1) ==
    LET c == BV_calc(op_type, Bytes64(val_0[1], val_0[2]), Bytes64(val_1[1], val_1[2]))
    IN  [trap |-> c.trap, v |-> <<Word32(c.v, 0), Word32(c.v, 1)>>]

\* IBinOp::execute: the arms for I32 and I64; a float result type reaches
\* `unreachable!()`
IBinOp_execute(inst, stack, memory, locals) ==
    LET p1 == pop_value(stack)
        p0 == pop_value(p1.stack)
    IN  IF ~p1.ok THEN {Res(Err("StackViolation"), p1.stack, memory, locals)}
        ELSE IF ~p0.ok THEN {Res(Err("StackViolation"), p0.stack, memory, locals)}
        ELSE IF ~(p0.v.t = p1.v.t /\ p1.v.t = inst.t)
        THEN {Res(Err("Misc"), p0.stack, memory, locals)}
        ELSE IF inst.t \in {"F32", "F64"}
        THEN {Res(Panic("unreachable"), p0.stack, memory, locals)}
        ELSE IF inst.t = "I64"
        THEN { LET calc == IBinOp_calc64(inst.kind, val_0, val_1)
               IN  IF calc.trap
                   THEN Res(CI_Trap("UndefinedDivision"), p0.stack, memory, locals)
                   ELSE Res(CI_None,
                            push_value(p0.stack,
                                       from_explicit_type(inst.t, calc.v[1], calc.v[2])),
                            memory, locals)
               : val_0 \in as_i64_unchecked(p0.v), val_1 \in as_i64_unchecked(p1.v) }
        ELSE
        LET calc == IBinOp_calc(inst.kind, as_i32_unchecked(p0.v), as_i32_unchecked(p1.v))
        IN  IF calc.trap
            THEN {Res(CI_Trap("UndefinedDivision"), p0.stack, memory, locals)}
            ELSE {Res(CI_None,
                      push_value(p0.stack,
                                 from_explicit_type(inst.t, calc.v, SignExtend(calc.v))),
                      memory, locals)}

\* LocalGet::execute: locals[self.index] panics past the end of the vector
LocalGet_execute(inst, stack, memory, locals) ==
    IF inst.index >= Len(locals)
    THEN {Res(Panic("index out of bounds"), stack, memory, locals)}
    ELSE {Res(CI_None, push_value(stack, locals[inst.index + 1]), memory, locals)}

\* a LocalSet that clears the locals after the one it sets
LocalSet_execute_ClearsRest(inst, stack, memory, locals) ==
    LET p == pop_value(stack)
    IN  IF ~p.ok THEN {Res(Err("StackViolation"), p.stack, memory, locals)}
        ELSE IF inst.index >= Len(locals)
        THEN {Res(Panic("index out of bounds"), p.stack, memory, locals)}
        ELSE {Res(CI_None, p.stack, memory,
                  [i \in 1..Len(locals) |->
                     IF i = inst.index + 1 THEN p.v
                     ELSE IF i > inst.index + 1 THEN Value_zero(locals[i].t)
                     ELSE locals[i]])}

\* LocalSet::execute: the pop is evaluated before the indexed place
LocalSet_execute(inst, stack, memory, locals) ==
    LET p == pop_value(stack)
    IN  IF ~p.ok THEN {Res(Err("StackViolation"), p.stack, memory, locals)}
        ELSE IF inst.index >= Len(locals)
        THEN {Res(Panic("index out of bounds"), p.stack, memory, locals)}
        ELSE {Res(CI_None, p.stack, memory, [locals EXCEPT ![inst.index + 1] = p.v])}

\* Stack::fetch_value(offset): `stack_size - 1 - offset` underflows when the
\* offset is not below the depth; a build with overflow checks panics there,
\* a build without them wraps and gets None from Vec::get.
fetch_value(stack, offset) ==
    IF offset < Len(stack)
    THEN {[res |-> "Ok", v |-> stack[Len(stack) - offset]]}
    ELSE {[res |-> "Panic", v |-> Value_zero("I32")],
          [res |-> "StackViolation", v |-> Value_zero("I32")]}

\* LocalTee::execute
LocalTee_execute(inst, stack, memory, locals) ==
    { IF f.res = "Panic" THEN Res(Panic("subtract with overflow"), stack, memory, locals)
      ELSE IF f.res = "StackViolation" THEN Res(Err("StackViolation"), stack, memory, locals)
      ELSE IF inst.index >= Len(locals)
      THEN Res(Panic("index out of bounds"), stack, memory, locals)
      ELSE Res(CI_None, stack, memory, [locals EXCEPT ![inst.index + 1] = f.v])
      : f \in fetch_value(stack, 0) }

\* Load::execute
Load_execute(inst, stack, memory, locals) ==
    LET p == pop_value(stack)
        a == try_u32(p.v)
        address == effective_address(a.u, inst.offset)
        r == Memory_read(memory, inst.t, inst.bitwidth, address)
    IN  IF ~p.ok THEN {Res(Err("StackViolation"), p.stack, memory, locals)}
        ELSE IF ~a.ok THEN {Res(Err("Misc"), p.stack, memory, locals)}
        ELSE IF r.res = "Panic"
        THEN {Res(Panic("index out of bounds"), p.stack, memory, locals)}
        ELSE {Res(CI_None, push_value(p.stack, r.v), memory, locals)}

\* Store::execute: the value is popped first, then the address
Store_execute(inst, stack, memory, locals) ==
    LET pv == pop_value(stack)
        pa == pop_value(pv.stack)
        a == try_u32(pa.v)
        address == effective_address(a.u, inst.offset)
    IN  IF ~pv.ok THEN {Res(Err("StackViolation"), pv.stack, memory, locals)}
        ELSE IF ~pa.ok THEN {Res(Err("StackViolation"), pa.stack, memory, locals)}
        ELSE IF ~a.ok THEN {Res(Err("Misc"), pa.stack, memory, locals)}
        ELSE
        { LET w == Memory_write(memory, value[1], value[2], inst.bitwidth, address)
          IN  IF w.res = "Panic" THEN Res(Panic("bitwidth"), pa.stack, memory, locals)
              ELSE IF w.res = "None"
              THEN Res(CI_Trap("MemoryOutOfBounds"), pa.stack, memory, locals)
              ELSE Res(CI_None, pa.stack, w.mem, locals)
          : value \in as_i64_unchecked(pv.v) }

\* Branch::execute
Branch_execute(inst, stack, memory, locals) ==
    {Res(CI_Branch(inst.index), stack, memory, locals)}

\* a BranchIf that pops and never branches
BranchIf_execute_NeverTaken(inst, stack, memory, locals) ==
    LET p == pop_value(stack)
    IN  IF ~p.ok THEN {Res(Err("StackViolation"), p.stack, memory, locals)}
        ELSE {Res(CI_None, p.stack, memory, locals)}

\* BranchIf::execute: the condition is the whole 64-bit payload
BranchIf_execute(inst, stack, memory, locals) ==
    LET p == pop_value(stack)
    IN  IF ~p.ok THEN {Res(Err("StackViolation"), p.stack, memory, locals)}
        ELSE { IF condition = <<0, 0>>
               THEN Res(CI_None, p.stack, memory, locals)
               ELSE Res(CI_Branch(inst.index), p.stack, memory, locals)
               : condition \in as_i64_unchecked(p.v) }

\* `(val_0 as u32) < (val_1 as u32)` on words
RelOp_ltu(a, b) == IF (a < 0) = (b < 0) THEN a < b ELSE b < 0

\* the `calc` of RelOp::execute for arg_type I32
RelOp_calc32(op_type, val_0, val_1) ==
    CASE op_type = "Eq" -> val_0 = val_1
      [] op_type = "Neq" -> val_0 # val_1
      [] op_type = "LtS" -> val_0 < val_1
      [] op_type = "GtS" -> val_0 > val_1
      [] op_type = "LeS" -> val_0 <= val_1
      [] op_type = "GeS" -> val_0 >= val_1
      [] op_type = "LtU" -> RelOp_ltu(val_0, val_1)
      [] op_type = "GtU" -> RelOp_ltu(val_1, val_0)
      [] op_type = "LeU" -> ~RelOp_ltu(val_1, val_0)
      [] op_type = "GeU" -> ~RelOp_ltu(val_0, val_1)

\* a comparison that looks at the low words only
RelOp_calc64_LowWord(op_type, val_0, val_1) ==
    RelOp_calc32(op_type, val_0[1], val_1[1])

\* the `calc` of RelOp::execute for arg_type I64, on <<lo, hi>> pairs: the
\* high words decide (signed or unsigned), then the low words (unsigned)
RelOp_calc64(op_type, val_0, val_1) ==
    IF val_0 = val_1
    THEN op_type \in {"Eq", "LeS", "LeU", "GeS", "GeU"}
    ELSE IF val_0[2] = val_1[2]
    THEN CASE op_type = "Eq" -> FALSE
           [] op_type = "Neq" -> TRUE
           [] op_type \in {"LtS", "LtU", "LeS", "LeU"} -> RelOp_ltu(val_0[1], val_1[1])
           [] op_type \in {"GtS", "GtU", "GeS", "GeU"} -> RelOp_ltu(val_1[1], val_0[1])
    ELSE CASE op_type = "Eq" -> FALSE
           [] op_type = "Neq" -> TRUE
           [] op_type \in {"LtS", "LeS"} -> val_0[2] < val_1[2]
           [] op_type \in {"GtS", "GeS"} -> val_0[2] > val_1[2]
           [] op_type \in {"LtU", "LeU"} -> RelOp_ltu(val_0[2], val_1[2])
           [] op_type \in {"GtU", "GeU"} -> RelOp_ltu(val_1[2], val_0[2])

(***************************************************************************)
(* f32 and f64 comparisons, on the IEEE 754 bits: a float is its sign and  *)
(* its magnitude <<low word, high word without the sign bit>> (an f32 has  *)
(* the high word only).                                                    *)
(***************************************************************************)
ClearSign(w) == IF w < 0 THEN w - I32_MIN ELSE w

\* as_f32_unchecked / as_f64_unchecked of the payload <<lo, hi>>
F32Of(lo) == [neg |-> lo < 0, mag |-> <<0, ClearSign(lo)>>, inf |-> 2139095040]
F64Of(lo, hi) == [neg |-> hi < 0, mag |-> <<lo, ClearSign(hi)>>, inf |-> 2146435072]

IsNaN(x) == x.mag[2] > x.inf \/ (x.mag[2] = x.inf /\ x.mag[1] # 0)
IsZero(x) == x.mag = <<0, 0>>

\* x < y for two floats that are not NaN
FloatLess(x, y) ==
    LET below(a, b) == a[2] < b[2] \/ (a[2] = b[2] /\ RelOp_ltu(a[1], b[1]))
    IN  IF IsZero(x) /\ IsZero(y) THEN FALSE
        ELSE IF x.neg # y.neg THEN x.neg
        ELSE IF x.neg THEN below(y.mag, x.mag) ELSE below(x.mag, y.mag)

\* PartialEq::eq of f32 / f64
FloatEq(x, y) ==
    ~IsNaN(x) /\ ~IsNaN(y) /\ ((IsZero(x) /\ IsZero(y)) \/ (x.neg = y.neg /\ x.mag = y.mag))

\* a float comparison whose Neq is the negation of eq
RelOp_calcF_NeqNegates(op_type, val_0, val_1) ==
    LET ordered == ~IsNaN(val_0) /\ ~IsNaN(val_1)
    IN  CASE op_type = "Eq" -> FloatEq(val_0, val_1)
          [] op_type = "Neq" -> ~FloatEq(val_0, val_1)
          [] op_type = "LtS" -> ordered /\ FloatLess(val_0, val_1)
          [] op_type = "GtS" -> ordered /\ FloatLess(val_1, val_0)
          [] op_type = "LeS" -> ordered /\ ~FloatLess(val_1, val_0)
          [] op_type = "GeS" -> ordered /\ ~FloatLess(val_0, val_1)

\* the `calc` of RelOp::execute for arg_type F32 and F64 (the two arms are
\* alike): the arm of Neq calls eq; the arms exist for Signed only
RelOp_calcF(op_type, val_0, val_1) ==
    LET ordered == ~IsNaN(val_0) /\ ~IsNaN(val_1)
    IN  CASE op_type = "Eq" -> FloatEq(val_0, val_1)
          [] op_type = "Neq" -> FloatEq(val_0, val_1)
          [] op_type = "LtS" -> ordered /\ FloatLess(val_0, val_1)
          [] op_type = "GtS" -> ordered /\ FloatLess(val_1, val_0)
          [] op_type = "LeS" -> ordered /\ ~FloatLess(val_1, val_0)
          [] op_type = "GeS" -> ordered /\ ~FloatLess(val_0, val_1)

\* `calc as u64` of a bool
BoolWord(calc) == IF calc THEN 1 ELSE 0

\* RelOp::execute.  The operands must have the same tag, which is not
\* compared with arg_type.  A float comparison with an unsigned op_type
\* reaches `unreachable!()`.
RelOp_execute(inst, stack, memory, locals) ==
    LET p1 == pop_value(stack)
        p0 == pop_value(p1.stack)
    IN  IF ~p1.ok THEN {Res(Err("StackViolation"), p1.stack, memory, locals)}
        ELSE IF ~p0.ok THEN {Res(Err("StackViolation"), p0.stack, memory, locals)}
        ELSE IF p0.v.t # p1.v.t
        THEN {Res(Err("Misc"), p0.stack, memory, locals)}
        ELSE IF inst.t \in {"F32", "F64"} /\ inst.kind \in {"LtU", "GtU", "LeU", "GeU"}
        THEN {Res(Panic("unreachable"), p0.stack, memory, locals)}
        ELSE IF inst.t = "F32"
        THEN {Res(CI_None,
                  push_value(p0.stack,
                             from_explicit_type("I32",
                                 BoolWord(RelOp_calcF(inst.kind,
                                                      F32Of(as_i32_unchecked(p0.v)),
                                                      F32Of(as_i32_unchecked(p1.v)))), 0)),
                  memory, locals)}
        ELSE IF inst.t = "F64"
        THEN { Res(CI_None,
                   push_value(p0.stack,
                              from_explicit_type("I32",
                                  BoolWord(RelOp_calcF(inst.kind,
                                                       F64Of(val_0[1], val_0[2]),
                                                       F64Of(val_1[1], val_1[2]))), 0)),
                   memory, locals)
               : val_0 \in as_i64_unchecked(p0.v), val_1 \in as_i64_unchecked(p1.v) }
        ELSE IF inst.t = "I64"
        THEN { Res(CI_None,
                   push_value(p0.stack,
                              from_explicit_type("I32",
                                  BoolWord(RelOp_calc64(inst.kind, val_0, val_1)), 0)),
                   memory, locals)
               : val_0 \in as_i64_unchecked(p0.v), val_1 \in as_i64_unchecked(p1.v) }
        ELSE {Res(CI_None,
                  push_value(p0.stack,
                             from_explicit_type("I32",
                                 BoolWord(RelOp_calc32(inst.kind, as_i32_unchecked(p0.v),
                                                       as_i32_unchecked(p1.v))), 0)),
                  memory, locals)}

\* the `has_correct_type` of CvtOp::execute; Convert carries its source type
has_correct_type(inst, t) ==
    CASE inst.kind = "Wrap" -> t = "I32"
      [] inst.kind \in {"ExtendS", "ExtendU"} -> t = "I32"
      [] inst.kind \in {"ConvertS", "ConvertU"} -> t = inst.t

(***************************************************************************)
(* `x as f32` and `x as f64` of an integer: the IEEE 754 bits of the       *)
(* nearest float, ties to even.  The integer is a sign and a magnitude m,  *)
(* an unsigned integer of 8 bytes; p is the precision (24 or 53 bits).     *)
(***************************************************************************)
\* the position of the highest set bit of m # 0
TopBit(m) == CHOOSE i \in 0..63 : BV_bit(m, i) = 1 /\ \A j \in (i + 1)..63 : BV_bit(m, j) = 0

\* m cut to its p highest bits and rounded: the significand M with
\* 2^(p-1) <= M < 2^p and the exponent E of its highest bit
RoundToPrecision(m, p) ==
    LET top == TopBit(m)
        s == top + 1 - p
    IN  IF s <= 0
        THEN [M |-> BV_shl(m, -s), E |-> top]
        ELSE LET q == BV_shr_u(m, s)
                 guard == BV_bit(m, s - 1)
                 sticky == \E i \in 0..(s - 2) : BV_bit(m, i) = 1
                 up == guard = 1 /\ (sticky \/ BV_bit(q, 0) = 1)
                 r == IF up THEN BV_add(q, BV_pow2(8, 0)) ELSE q
             IN  IF BV_bit(r, p) = 1
                 THEN [M |-> BV_pow2(8, p - 1), E |-> top + 1]
                 ELSE [M |-> r, E |-> top]

\* the 8 bytes of a small natural
BV_small(n) == <<n % 256, n \div 256, 0, 0, 0, 0, 0, 0>>

\* sign, biased exponent and fraction put together: the bits of the float of
\* width 32 or 64, in the low bytes of an 8-byte vector
FloatBits(neg, m, width) ==
    LET p == IF width = 32 THEN 24 ELSE 53
        bias == IF width = 32 THEN 127 ELSE 1023
        r == RoundToPrecision(m, p)
        fraction == BV_sub(r.M, BV_pow2(8, p - 1))
        exponent == BV_shl(BV_small(r.E + bias), p - 1)
        sign == IF neg THEN BV_pow2(8, width - 1) ELSE BV_zero(8)
    IN  IF BV_is_zero(m) THEN BV_zero(8)
        ELSE BV_add(sign, BV_add(exponent, fraction))

\* Value::from(x as f32) / Value::from(x as f64) for the integer with this
\* sign and magnitude
FloatValue(neg, m, width) ==
    LET bits == FloatBits(neg, m, width)
    IN  IF width = 32 THEN Value_new("F32", Word32(bits, 0), 0)
        ELSE Value_new("F64", Word32(bits, 0), Word32(bits, 1))

\* the payload <<lo, hi>> of the source type read as a signed integer
\* (`as f32` of an i32 / i64), as a sign and a magnitude
SignedReading(src, lo, hi) ==
    LET v == IF src = "I32" THEN Bytes64(lo, SignExtend(lo)) ELSE Bytes64(lo, hi)
    IN  [neg |-> BV_sign(v) = 1, m |-> BV_abs(v)]

\* the payload read as an unsigned integer (`as u32 as f32`, `as u64 as f32`)
UnsignedReading(src, lo, hi) ==
    [neg |-> FALSE, m |-> IF src = "I32" THEN Bytes64(lo, 0) ELSE Bytes64(lo, hi)]

\* the reading each Convert arm should take: signed for Signed
Convert_reading_BySignedness(signedness, src, lo, hi) ==
    IF signedness = "ConvertS" THEN SignedReading(src, lo, hi)
    ELSE UnsignedReading(src, lo, hi)

\* the reading each arm of CvtOp::execute takes: the arm for
\* Convert(Signedness::Unsigned, ..) casts the signed integer, the arm for
\* Convert(Signedness::Signed, ..) casts through u32 / u64
Convert_reading(signedness, src, lo, hi) ==
    IF signedness = "ConvertU" THEN SignedReading(src, lo, hi)
    ELSE UnsignedReading(src, lo, hi)

\* CvtOp::execute for Wrap and Extend: the wrap writes all 64 bits it reads
\* under the tag I32.  The float conversions are not modelled.
CvtOp_execute(inst, stack, memory, locals) ==
    LET p == pop_value(stack)
    IN  IF ~p.ok THEN {Res(Err("StackViolation"), p.stack, memory, locals)}
        ELSE IF ~has_correct_type(inst, p.v.t)
        THEN {Res(Err("Misc"), p.stack, memory, locals)}
        ELSE IF inst.kind \in {"ConvertS", "ConvertU"}
        THEN { LET x == Convert_reading(inst.kind, inst.t, op[1], op[2])
               IN  Res(CI_None,
                       push_value(p.stack, FloatValue(x.neg, x.m, inst.bitwidth)),
                       memory, locals)
               : op \in (IF inst.t = "I32" THEN {<<as_i32_unchecked(p.v), 0>>}
                         ELSE as_i64_unchecked(p.v)) }
        ELSE IF inst.kind = "Wrap"
        THEN { Res(CI_None,
                   push_value(p.stack, from_explicit_type("I32", op[1], op[2])),
                   memory, locals)
               : op \in as_i64_unchecked(p.v) }
        ELSE {Res(CI_None,
                  push_value(p.stack,
                             from_explicit_type("I64", as_i32_unchecked(p.v),
                                 IF inst.kind = "ExtendS"
                                 THEN SignExtend(as_i32_unchecked(p.v)) ELSE 0)),
                  memory, locals)}

\* Return::execute
Return_execute(inst, stack, memory, locals) ==
    {Res(CI_Return, stack, memory, locals)}

(***************************************************************************)
(* Call::execute up to the call of the callee: the arguments popped (the   *)
(* last one first) and reversed.                                           *)
(***************************************************************************)
RECURSIVE PopArgs(_, _, _)
\* the loop `for _ in 0..num_params { args.push(stack.pop_value()?) }`
PopArgs(stack, n, args) ==
    IF n = 0 THEN [ok |-> TRUE, stack |-> stack, args |-> args]
    ELSE LET p == pop_value(stack)
         IN  IF ~p.ok THEN [ok |-> FALSE, stack |-> p.stack, args |-> args]
             ELSE PopArgs(p.stack, n - 1, Append(args, p.v))

\* Vec::reverse
Reverse(s) == [i \in 1..Len(s) |-> s[Len(s) + 1 - i]]

\* Call_args without the `args.reverse()`: the arguments in pop order
Call_args_NoReverse(stack, n) ==
    LET p == PopArgs(stack, n, << >>)
    IN  [ok |-> p.ok, stack |-> p.stack, args |-> p.args]

\* the argument vector Call::execute hands to the callee
Call_args(stack, n) ==
    LET p == PopArgs(stack, n, << >>)
    IN  [ok |-> p.ok, stack |-> p.stack, args |-> Reverse(p.args)]

(***************************************************************************)
(* Function::call.                                                         *)
(***************************************************************************)
\* the locals vector built on entry: the arguments, then the zero of each
\* declared local
Function_locals(f, args) ==
    args \o [i \in 1..Len(f.local_types) |-> Value_zero(f.local_types[i])]

\* an activation of an instruction list: the function body ("Function") or a
\* Block with its continuation; pc is the position of the `for` loop
Activation(cont, instructions) == [cont |-> cont, instructions |-> instructions, pc |-> 1]

\* Function_enter with the arguments left on the callee's stack as well
Function_enter_ArgsOnStack(fs, function_index, args) ==
    [fn |-> function_index,
     stack |-> args,
     locals |-> Function_locals(fs[function_index + 1], args),
     ctrl |-> <<Activation("Function", fs[function_index + 1].instructions)>>]

\* the state of a fresh invocation: its own stack and locals
Function_enter(fs, function_index, args) ==
    [fn |-> function_index,
     stack |-> Stack_new,
     locals |-> Function_locals(fs[function_index + 1], args),
     ctrl |-> <<Activation("Function", fs[function_index + 1].instructions)>>]

\* do_return without the assert_empty: the top of the stack is the result
do_return_NoAssert(stack) ==
    LET ret_ == pop_value(stack)
    IN  IF ~ret_.ok THEN [ok |-> FALSE, v |-> ret_.v, err |-> "StackViolation"]
        ELSE [ok |-> TRUE, v |-> ret_.v, err |-> ""]

\* Function::do_return
do_return(stack) ==
    LET ret_ == pop_value(stack)
    IN  IF ~assert_empty(ret_.stack) THEN [ok |-> FALSE, v |-> ret_.v, err |-> "StackViolation"]
        ELSE IF ~ret_.ok THEN [ok |-> FALSE, v |-> ret_.v, err |-> "StackViolation"]
        ELSE [ok |-> TRUE, v |-> ret_.v, err |-> ""]

\* the match of Function::call on the result of a top-level instruction:
\* "exit" with a Result, "panic", or "next" instruction
Function_match(tok, stack) ==
    CASE tok.kind = "Err" ->
            [do |-> "exit", r |-> [ok |-> FALSE, v |-> Value_zero("I32"), err |-> tok.what]]
      [] tok.kind = "Return" -> [do |-> "exit", r |-> do_return(stack)]
      [] tok.kind = "Trap" -> [do |-> "panic", r |-> do_return(stack)]
      [] OTHER -> [do |-> "next", r |-> do_return(stack)]

\* Block_match without the arm for Return, which then falls to `Ok(_) => ()`
Block_match_DropsReturn(continuation, tok) ==
    CASE tok.kind = "Branch" /\ tok.depth = 0 /\ continuation = "Loop" ->
            [do |-> "restart", tok |-> tok]
      [] tok.kind = "Branch" /\ tok.depth = 0 /\ continuation = "Branch" ->
            [do |-> "return", tok |-> CI_None]
      [] tok.kind = "Branch" /\ tok.depth > 0 ->
            [do |-> "return", tok |-> CI_Branch(tok.depth - 1)]
      [] tok.kind = "Err" -> [do |-> "return", tok |-> tok]
      [] OTHER -> [do |-> "next", tok |-> tok]

\* Block_match that takes an Err like None
Block_match_DropsErr(continuation, tok) ==
    CASE tok.kind = "Branch" /\ tok.depth = 0 /\ continuation = "Loop" ->
            [do |-> "restart", tok |-> tok]
      [] tok.kind = "Branch" /\ tok.depth = 0 /\ continuation = "Branch" ->
            [do |-> "return", tok |-> CI_None]
      [] tok.kind = "Branch" /\ tok.depth > 0 ->
            [do |-> "return", tok |-> CI_Branch(tok.depth - 1)]
      [] tok.kind = "Return" -> [do |-> "return", tok |-> CI_Return]
      [] OTHER -> [do |-> "next", tok |-> tok]

\* Block_match with the depth of a forwarded Branch left as it came
Block_match_KeepsDepth(continuation, tok) ==
    CASE tok.kind = "Branch" /\ tok.depth = 0 /\ continuation = "Loop" ->
            [do |-> "restart", tok |-> tok]
      [] tok.kind = "Branch" /\ tok.depth = 0 /\ continuation = "Branch" ->
            [do |-> "return", tok |-> CI_None]
      [] tok.kind = "Branch" /\ tok.depth > 0 -> [do |-> "return", tok |-> tok]
      [] tok.kind = "Return" -> [do |-> "return", tok |-> CI_Return]
      [] tok.kind = "Err" -> [do |-> "return", tok |-> tok]
      [] OTHER -> [do |-> "next", tok |-> tok]

\* the match of Block::execute on the result of a body instruction:
\* "restart" the body, "return" a token, or "next" instruction
Block_match(continuation, tok) ==
    CASE tok.kind = "Branch" /\ tok.depth = 0 /\ continuation = "Loop" ->
            [do |-> "restart", tok |-> tok]
      [] tok.kind = "Branch" /\ tok.depth = 0 /\ continuation = "Branch" ->
            [do |-> "return", tok |-> CI_None]
      [] tok.kind = "Branch" /\ tok.depth > 0 ->
            [do |-> "return", tok |-> CI_Branch(tok.depth - 1)]
      [] tok.kind = "Return" -> [do |-> "return", tok |-> CI_Return]
      [] tok.kind = "Err" -> [do |-> "return", tok |-> tok]
      [] OTHER -> [do |-> "next", tok |-> tok]

(***************************************************************************)
(* The parser: LEB128 decoding, the ByteReader and the preamble check of   *)
(* parse_wasm.  A u64 is a vector of 8 bytes while it is accumulated and a *)
(* pair <<lo, hi>> of words once it is returned.  `checks` says whether    *)
(* the build checks integer overflow (a debug build panics on a shift by   *)
(* 64 or more and on a wrapped sum; a release build masks the shift count  *)
(* and wraps).                                                             *)
(***************************************************************************)
Leb(kind, what, value, offset) ==
    [kind |-> kind, what |-> what, value |-> value, offset |-> offset]

RECURSIVE leb128_groups(_, _, _, _)
\* the loop of parse_unsigned_leb128 / parse_signed_leb128 and the statement
\* after it: the 7-bit groups added at 7 * offset, up to the first byte
\* without the continuation bit
leb128_groups(bytes, offset, value, checks) ==
    IF offset >= Len(bytes) THEN Leb("Panic", "index out of bounds", value, offset)
    ELSE IF checks /\ 7 * offset >= 64 THEN Leb("Panic", "shift overflow", value, offset)
    ELSE LET group == BV_shl(Bytes64(bytes[offset + 1] % 128, 0), (7 * offset) % 64)
             sum == BV_add(value, group)
         IN  IF checks /\ ~BV_geu(sum, value)
             THEN Leb("Panic", "add overflow", value, offset)
             ELSE IF bytes[offset + 1] >= 128
             THEN leb128_groups(bytes, offset + 1, sum, checks)
             ELSE Leb("Ok", "", sum, offset + 1)

\* parse_unsigned_leb128: (value, length read)
parse_unsigned_leb128(bytes, checks) ==
    leb128_groups(bytes, 0, BV_zero(8), checks)

\* a signed decoding that leaves the sign extension out
parse_signed_leb128_NoSignExtension(bytes, checks) ==
    leb128_groups(bytes, 0, BV_zero(8), checks)

\* parse_signed_leb128: the same groups, then the sign extension
parse_signed_leb128(bytes, checks) ==
    LET g == leb128_groups(bytes, 0, BV_zero(8), checks)
    IN  IF g.kind = "Ok" /\ 7 * g.offset < 64 /\ (bytes[g.offset] \div 64) % 2 = 1
        THEN Leb("Ok", "",
                 BV_calc("Or", g.value, BV_shl(BV_not(BV_zero(8)), 7 * g.offset)).v,
                 g.offset)
        ELSE g

\* the result of a ByteReader method or of parse_wasm: Ok with a number
\* (a pair of words) or with bytes, an Error, or a panic
ReadOk(v, bytes) == [kind |-> "Ok", what |-> "", v |-> v, bytes |-> bytes]
ReadErr(e) == [kind |-> "Err", what |-> e, v |-> <<0, 0>>, bytes |-> << >>]
ReadPanic(why) == [kind |-> "Panic", what |-> why, v |-> <<0, 0>>, bytes |-> << >>]
NotRead == [kind |-> "New", what |-> "", v |-> <<0, 0>>, bytes |-> << >>]

\* ByteReader::new, with the build the program was compiled in
ByteReader(content, checks) ==
    [content |-> content, offset |-> 0, checks |-> checks,
     \* the last method called, its type parameter and its result
     op |-> "new", I |-> "", res |-> NotRead]

\* ByteReader::read_byte
read_byte(r) ==
    IF r.offset >= Len(r.content)
    THEN [r EXCEPT !.op = "read_byte", !.I = "", !.res = ReadErr("EndOfData")]
    ELSE [r EXCEPT !.op = "read_byte", !.I = "", !.offset = @ + 1,
                   !.res = ReadOk(<<r.content[r.offset + 1], 0>>, << >>)]

\* ByteReader::read_bytes: the bytes read before an error stay consumed
read_bytes(r, count) ==
    IF r.offset + count > Len(r.content)
    THEN [r EXCEPT !.op = "read_bytes", !.I = "", !.offset = Len(r.content),
                   !.res = ReadErr("EndOfData")]
    ELSE [r EXCEPT !.op = "read_bytes", !.I = "", !.offset = @ + count,
                   !.res = ReadOk(<<0, 0>>,
                                  SubSeq(r.content, r.offset + 1, r.offset + count))]

\* CheckedFromU64::from and CheckedFromI64::from for the target type I
CheckedFromU64(I, v) ==
    CASE I = "u64" -> ReadOk(v, << >>)
      [] I = "i64" -> ReadOk(v, << >>)
      [] I = "u32" -> IF v[2] = 0 THEN ReadOk(v, << >>) ELSE ReadErr("IntSizeViolation")
      [] I = "i32" -> IF v[2] = 0 /\ v[1] >= 0 THEN ReadOk(v, << >>)
                      ELSE ReadErr("IntSizeViolation")

CheckedFromI64(I, v) ==
    CASE I = "i64" -> ReadOk(v, << >>)
      [] I = "i32" -> IF v[2] = SignExtend(v[1]) THEN ReadOk(v, << >>)
                      ELSE ReadErr("IntSizeViolation")

\* the slice &self.content[self.offset..]; slicing past the end panics
Rest(r) == SubSeq(r.content, r.offset + 1, Len(r.content))

\* ByteReader::read_int::<I>
read_int(r, I) ==
    IF r.offset > Len(r.content)
    THEN [r EXCEPT !.op = "read_int", !.I = I, !.res = ReadPanic("slice index out of range")]
    ELSE LET g == parse_unsigned_leb128(Rest(r), r.checks)
         IN  IF g.kind = "Panic"
             THEN [r EXCEPT !.op = "read_int", !.I = I, !.res = ReadPanic(g.what)]
             ELSE [r EXCEPT !.op = "read_int", !.I = I, !.offset = @ + g.offset,
                            !.res = CheckedFromU64(I, <<Word32(g.value, 0),
                                                        Word32(g.value, 1)>>)]

\* ByteReader::read_signed_int::<I>
read_signed_int(r, I) ==
    IF r.offset > Len(r.content)
    THEN [r EXCEPT !.op = "read_signed_int", !.I = I, !.res = ReadPanic("slice index out of range")]
    ELSE LET g == parse_signed_leb128(Rest(r), r.checks)
         IN  IF g.kind = "Panic"
             THEN [r EXCEPT !.op = "read_signed_int", !.I = I, !.res = ReadPanic(g.what)]
             ELSE [r EXCEPT !.op = "read_signed_int", !.I = I, !.offset = @ + g.offset,
                            !.res = CheckedFromI64(I, <<Word32(g.value, 0),
                                                        Word32(g.value, 1)>>)]

\* the magic number and the version parse_wasm accepts
Magic == <<0, 97, 115, 109>>
Version == <<1, 0, 0, 0>>

\* parse_wasm, the two checks of the preamble: buf[0..=3] and buf[4..=7]
\* panic on a buffer that ends before them; "Ok" goes on to the sections
parse_wasm_preamble(buf) ==
    IF Len(buf) < 4 THEN ReadPanic("range end index 4 out of range")
    ELSE IF SubSeq(buf, 1, 4) # Magic THEN ReadErr("InvalidInput")
    ELSE IF Len(buf) < 8 THEN ReadPanic("range end index 8 out of range")
    ELSE IF SubSeq(buf, 5, 8) # Version THEN ReadErr("BadVersion")
    ELSE ReadOk(<<0, 0>>, SubSeq(buf, 9, Len(buf)))

(***************************************************************************)
(* ByteReader::read_inst: one instruction of a function body.  Ok(None)    *)
(* is ReadInst(<< >>), Ok(Some(i)) is ReadInst(<<i>>).                     *)
(***************************************************************************)
ReadInst(insts) ==
    [kind |-> "Ok", what |-> "", v |-> <<0, 0>>, bytes |-> << >>, inst |-> insts]

\* the numeric instructions without an immediate (0x45 .. 0xBF); the ones
\* the interpreter model runs are built, the others are kept as their opcode
Numeric(opcode) ==
    CASE opcode = 70 -> RelOp("I32", "Eq")
      [] opcode = 71 -> RelOp("I32", "Neq")
      [] opcode = 81 -> RelOp("I64", "Eq")
      [] opcode = 82 -> RelOp("I64", "Neq")
      [] opcode = 85 -> RelOp("I64", "GtS")
      [] opcode = 106 -> IBinOp("I32", "Add")
      [] opcode = 107 -> IBinOp("I32", "Sub")
      [] opcode = 108 -> IBinOp("I32", "Mul")
      [] opcode = 124 -> IBinOp("I64", "Add")
      [] opcode = 125 -> IBinOp("I64", "Sub")
      [] opcode = 126 -> IBinOp("I64", "Mul")
      [] opcode = 167 -> CvtOp("Wrap")
      [] OTHER -> Inst("Numeric", Value_zero("I32"), opcode, 0, 0, "I32", "", << >>)

\* the reader after a method that read_inst called has failed: `?`
Failed(r) == [r EXCEPT !.op = "read_inst", !.I = ""]
Built(r, i) == [r EXCEPT !.op = "read_inst", !.I = "", !.res = ReadInst(<<i>>)]

\* the two immediates (align, offset) of a load or a store
read_memarg(r, make(_)) ==
    LET align == read_int(r, "u32")
        offset == read_int(align, "u32")
    IN  IF align.res.kind # "Ok" THEN Failed(align)
        ELSE IF offset.res.kind # "Ok" THEN Failed(offset)
        ELSE Built(offset, make(offset.res.v[1]))

\* read_f32 / read_f64 and the Const made of it: the slice of n bytes panics
\* past the end of the content
read_float(r, n) ==
    IF r.offset + n > Len(r.content)
    THEN [r EXCEPT !.op = "read_inst", !.I = "",
                   !.res = ReadPanic("range end index out of range")]
    ELSE LET b(i) == r.content[r.offset + i]
             lo == WordOf(b(4), b(3), b(2), b(1))
         IN  Built([r EXCEPT !.offset = @ + n],
                     IF n = 4 THEN Const(Value_new("F32", lo, 0))
                     ELSE Const(Value_new("F64", lo, WordOf(b(8), b(7), b(6), b(5)))))

read_inst(r) ==
    LET b == read_byte(r)
        opcode == b.res.v[1]
    IN  IF b.res.kind # "Ok" THEN Failed(b)
        ELSE CASE opcode = 11 ->
                    [b EXCEPT !.op = "read_inst", !.I = "", !.res = ReadInst(<< >>)]
               [] opcode \in {32, 33, 34} ->
                    LET i == read_int(b, "u64")
                    IN  IF i.res.kind # "Ok" THEN Failed(i)
                        ELSE Built(i, CASE opcode = 32 -> LocalGet(i.res.v[1])
                                          [] opcode = 33 -> LocalSet(i.res.v[1])
                                          [] opcode = 34 -> LocalTee(i.res.v[1]))
               [] opcode = 40 -> read_memarg(b, LAMBDA o : Load("I32", 32, o))
               [] opcode = 41 -> read_memarg(b, LAMBDA o : Load("I64", 64, o))
               [] opcode = 42 -> read_memarg(b, LAMBDA o : Load("F32", 32, o))
               [] opcode = 43 -> read_memarg(b, LAMBDA o : Load("F64", 64, o))
               [] opcode = 54 -> read_memarg(b, LAMBDA o : Store(32, o))
               [] opcode = 65 ->
                    LET x == read_signed_int(b, "i32")
                    IN  IF x.res.kind # "Ok" THEN Failed(x)
                        ELSE Built(x, I32Const(x.res.v[1]))
               [] opcode = 66 ->
                    LET x == read_signed_int(b, "i64")
                    IN  IF x.res.kind # "Ok" THEN Failed(x)
                        ELSE Built(x, I64Const(x.res.v[1], x.res.v[2]))
               [] opcode = 67 -> read_float(b, 4)
               [] opcode = 68 -> read_float(b, 8)
               [] opcode \in 69..191 -> Built(b, Numeric(opcode))
               [] opcode = 252 ->
                    LET x == read_byte(b)
                    IN  IF x.res.kind # "Ok" THEN Failed(x)
                        ELSE IF x.res.v[1] \in 0..7
                        THEN Built(x, Inst("Numeric", Value_zero("I32"),
                                             252 * 256 + x.res.v[1], 0, 0, "I32", "", << >>))
                        ELSE [x EXCEPT !.op = "read_inst", !.I = "",
                                       !.res = ReadErr("UnknownSecondaryOpcode")]
               \* x => Err(Error::UnknownOpcode(x as u64))
               [] OTHER -> [b EXCEPT !.op = "read_inst", !.I = "",
                                     !.res = ReadErr("UnknownOpcode")]

(***************************************************************************)
(* The state.                                                              *)
(***************************************************************************)
VARIABLES
    reader,     \* the parser's ByteReader (and the file buffer of parse_wasm)
                \* with the result of its last method
    functions,  \* Module.functions: the functions, index 0 first
    exports,    \* Module.exports: name -> Export
    memory,     \* Module.memory: the one linear memory
    frames,     \* the chain of running Function::call invocations, the
                \* innermost last: each its function index, its Stack, its
                \* locals and the activations of its instruction lists
    ret,        \* the result of the instruction that has just executed in the
                \* innermost list, about to be matched by the enclosing loop
    outcome,    \* what Module::call has returned to its caller, if anything
    hist        \* history: what the run has done so far (no handler reads it)

vars == <<reader, functions, exports, memory, frames, ret, outcome, hist>>

Outcome(kind, v, what) == [kind |-> kind, v |-> v, what |-> what]
NotCalled == Outcome("NotCalled", Value_zero("I32"), "")
Running == Outcome("Running", Value_zero("I32"), "")

\* the innermost invocation and its innermost instruction list
Top == frames[Len(frames)]
Act == Top.ctrl[Len(Top.ctrl)]
\* the instruction the innermost `for` loop is about to execute
Cur == Act.instructions[Act.pc]

IsRunning == outcome = Running /\ Len(frames) > 0
\* a loop is about to execute its next instruction
Fetching == IsRunning /\ ret = NoRet /\ Act.pc <= Len(Act.instructions)
\* a loop has run off the end of its list
AtEnd == IsRunning /\ ret = NoRet /\ Act.pc > Len(Act.instructions)

InBlock == IsRunning /\ Act.cont # "Function"
InFunction == IsRunning /\ Act.cont = "Function"

ReplaceTop(fr) == [frames EXCEPT ![Len(frames)] = fr]
SetPc(fr, pc) == [fr EXCEPT !.ctrl[Len(fr.ctrl)].pc = pc]
\* a PopActivation that also drops the values of the invocation's stack
PopActivation_Unwinds(fr) ==
    [fr EXCEPT !.ctrl = SubSeq(fr.ctrl, 1, Len(fr.ctrl) - 1), !.stack = << >>]

PopActivation(fr) == [fr EXCEPT !.ctrl = SubSeq(fr.ctrl, 1, Len(fr.ctrl) - 1)]

(***************************************************************************)
(* History.  raised: where the token now travelling (Branch, Return, Trap  *)
(* or Err) was created: invocation depth, list depth, label, and the       *)
(* continuations of the lists around it.  stores: for each address of a    *)
(* store that no later store overlaps, the value stored, the number of     *)
(* bytes and the depth of the storing invocation.  load: the last load of  *)
(* such an address with the same width.  seen: the <<storer depth, loader  *)
(* depth>> pairs of the loads.                                             *)
(* calls: for every invocation started by a Call and still running, the    *)
(* caller as the Call left it.  exit: the stack depth and the result of    *)
(* the last invocation that ended through do_return.                       *)
(***************************************************************************)
NoLoad == [valid |-> FALSE, got |-> <<0, 0>>, want |-> <<0, 0>>, n |-> 0,
           storer |-> 0, loader |-> 0]
NoRaise == [frame |-> 0, level |-> 0, k |-> 0, kind |-> "", conts |-> << >>]
NoExit == [valid |-> FALSE, n |-> 0, ok |-> FALSE, frame |-> 0]
\* no add_export call yet
NoAdd == [name |-> "", export |-> Export("Function", 0), ok |-> TRUE, err |-> ""]

HistInit ==
    [raised |-> NoRaise, stores |-> NoBytes, load |-> NoLoad, seen |-> {},
     calls |-> << >>, exit |-> NoExit,
     \* the last add_export call with its Result, and the export of the first
     \* successful add under each name
     add |-> NoAdd, first |-> << >>,
     \* the arguments of the Module::call
     args |-> << >>]

\* the effective address of the Load or Store `inst` about to run on `stack`
AccessAddress(inst, stack) ==
    effective_address(IF inst.op = "Store" THEN stack[Len(stack) - 1].lo
                      ELSE stack[Len(stack)].lo,
                      inst.offset)

\* the low 8n bits of the u64 (lo, hi), as the payload of a Value
LowBits(lo, hi, n) ==
    CASE n = 1 -> <<lo % 256, 0>>
      [] n = 2 -> <<lo % 65536, 0>>
      [] n = 4 -> <<lo, 0>>
      [] n = 8 -> <<lo, hi>>

\* a store that succeeded replaces what it overlaps; a 64-bit store of a
\* value whose high word was never written is not recorded
HistStores(inst, stack, r) ==
    IF inst.op = "Store" /\ r.tok = CI_None
    THEN LET a == AccessAddress(inst, stack)
             n == inst.bitwidth \div 8
             v == stack[Len(stack)]
             keep == {b \in DOMAIN hist.stores :
                         b + hist.stores[b].n <= a \/ a + n <= b}
             dom == IF n <= 4 \/ v.hi_init THEN keep \cup {a} ELSE keep
         IN  [b \in dom |->
                 IF b = a THEN [lo |-> v.lo, hi |-> v.hi, n |-> n, frame |-> Len(frames)]
                 ELSE hist.stores[b]]
    ELSE hist.stores

HistLoad(inst, stack, r) ==
    IF /\ inst.op = "Load" /\ r.tok = CI_None
       /\ AccessAddress(inst, stack) \in DOMAIN hist.stores
       /\ hist.stores[AccessAddress(inst, stack)].n = inst.bitwidth \div 8
    THEN LET st == hist.stores[AccessAddress(inst, stack)]
             top == r.stack[Len(r.stack)]
         IN  [valid |-> TRUE, got |-> <<top.lo, top.hi>>,
              want |-> LowBits(st.lo, st.hi, st.n), n |-> st.n,
              storer |-> st.frame, loader |-> Len(frames)]
    ELSE NoLoad

HistAfter(inst, stack, r) ==
    LET ld == HistLoad(inst, stack, r)
    IN  [hist EXCEPT
           !.raised = IF r.tok.kind \in {"Branch", "Return", "Trap", "Err"}
                      THEN [frame |-> Len(frames), level |-> Len(Top.ctrl),
                            k |-> r.tok.depth, kind |-> r.tok.kind,
                            conts |-> [i \in 1..Len(Top.ctrl) |-> Top.ctrl[i].cont]]
                      ELSE @,
           !.stores = HistStores(inst, stack, r),
           !.load = ld,
           !.seen = IF ld.valid THEN @ \cup {<<ld.storer, ld.loader>>} ELSE @]

\* the caller as a Call that popped p arguments leaves it
HistCall(caller_before, caller, p) ==
    [hist EXCEPT !.calls = Append(@, [before |-> caller_before.stack, p |-> p,
                                      below |-> caller.stack,
                                      locals |-> caller.locals,
                                      ctrl |-> caller.ctrl])]

\* the innermost invocation ended
HistExit(through_do_return, stack, r) ==
    [hist EXCEPT !.calls = SubSeq(@, 1, Len(frames) - 2),
                 !.exit = IF through_do_return
                          THEN [valid |-> TRUE, n |-> Len(stack), ok |-> r.ok,
                                frame |-> Len(frames)]
                          ELSE @]

(***************************************************************************)
(* The steps of the execution loops.                                       *)
(***************************************************************************)
PanicOutcome(why) == Outcome("Panic", Value_zero("I32"), why)

\* the effect of an instruction handler that returned (or panicked) in the
\* innermost list of the innermost invocation
Apply(r) ==
    IF r.tok.kind = "Panic"
    THEN /\ outcome' = PanicOutcome(r.tok.what)
         /\ UNCHANGED <<reader, functions, exports, memory, frames, ret, hist>>
    ELSE /\ frames' = ReplaceTop([Top EXCEPT !.stack = r.stack, !.locals = r.locals])
         /\ memory' = r.memory
         /\ ret' = r.tok
         /\ hist' = HistAfter(Cur, Top.stack, r)
         /\ UNCHANGED <<reader, functions, exports, outcome>>

Exec_Const ==
    /\ Fetching /\ Cur.op = "Const"
    /\ \E r \in Const_execute(Cur, Top.stack, memory, Top.locals) : Apply(r)

Exec_IBinOp ==
    /\ Fetching /\ Cur.op = "IBinOp"
    /\ \E r \in IBinOp_execute(Cur, Top.stack, memory, Top.locals) : Apply(r)

Exec_LocalGet ==
    /\ Fetching /\ Cur.op = "LocalGet"
    /\ \E r \in LocalGet_execute(Cur, Top.stack, memory, Top.locals) : Apply(r)

Exec_LocalSet ==
    /\ Fetching /\ Cur.op = "LocalSet"
    /\ \E r \in LocalSet_execute(Cur, Top.stack, memory, Top.locals) : Apply(r)

Exec_LocalTee ==
    /\ Fetching /\ Cur.op = "LocalTee"
    /\ \E r \in LocalTee_execute(Cur, Top.stack, memory, Top.locals) : Apply(r)

Exec_Load ==
    /\ Fetching /\ Cur.op = "Load"
    /\ \E r \in Load_execute(Cur, Top.stack, memory, Top.locals) : Apply(r)

Exec_Store ==
    /\ Fetching /\ Cur.op = "Store"
    /\ \E r \in Store_execute(Cur, Top.stack, memory, Top.locals) : Apply(r)

Exec_Branch ==
    /\ Fetching /\ Cur.op = "Branch"
    /\ \E r \in Branch_execute(Cur, Top.stack, memory, Top.locals) : Apply(r)

Exec_RelOp ==
    /\ Fetching /\ Cur.op = "RelOp"
    /\ \E r \in RelOp_execute(Cur, Top.stack, memory, Top.locals) : Apply(r)

Exec_CvtOp ==
    /\ Fetching /\ Cur.op = "CvtOp"
    /\ \E r \in CvtOp_execute(Cur, Top.stack, memory, Top.locals) : Apply(r)

Exec_BranchIf ==
    /\ Fetching /\ Cur.op = "BranchIf"
    /\ \E r \in BranchIf_execute(Cur, Top.stack, memory, Top.locals) : Apply(r)

Exec_Return ==
    /\ Fetching /\ Cur.op = "Return"
    /\ \E r \in Return_execute(Cur, Top.stack, memory, Top.locals) : Apply(r)

\* Block::execute, entry: the `for` loop over the body starts
Exec_Block ==
    /\ Fetching /\ Cur.op = "Block"
    /\ frames' = ReplaceTop([Top EXCEPT
                     !.ctrl = Append(@, Activation(Cur.kind, Cur.instructions))])
    /\ UNCHANGED <<reader, functions, exports, memory, ret, outcome, hist>>

\* Block::execute, the match on the result of a body instruction
Block_step ==
    /\ InBlock /\ ret # NoRet
    /\ LET m == Block_match(Act.cont, ret)
       IN  CASE m.do = "restart" ->
                    /\ frames' = ReplaceTop(SetPc(Top, 1))
                    /\ ret' = NoRet
             [] m.do = "next" ->
                    /\ frames' = ReplaceTop(SetPc(Top, Act.pc + 1))
                    /\ ret' = NoRet
             [] m.do = "return" ->
                    /\ frames' = ReplaceTop(PopActivation(Top))
                    /\ ret' = m.tok
    /\ UNCHANGED <<reader, functions, exports, memory, outcome, hist>>

\* Block::execute, the body ran off its end: fall through with None
Block_end ==
    /\ InBlock /\ AtEnd
    /\ frames' = ReplaceTop(PopActivation(Top))
    /\ ret' = CI_None
    /\ UNCHANGED <<reader, functions, exports, memory, outcome, hist>>

\* Call::execute, from its start to the entry of the callee
Exec_Call ==
    /\ Fetching /\ Cur.op = "Call"
    /\ IF Cur.index >= Len(functions)
       THEN /\ outcome' = PanicOutcome("index out of bounds")
            /\ UNCHANGED <<frames, ret, hist>>
       ELSE LET a == Call_args(Top.stack, num_params(functions[Cur.index + 1]))
                caller == [Top EXCEPT !.stack = a.stack]
            IN  IF ~a.ok
                THEN /\ frames' = ReplaceTop(caller)
                     /\ ret' = Err("StackViolation")
                     /\ hist' = [hist EXCEPT !.raised =
                                    [frame |-> Len(frames), level |-> Len(Top.ctrl),
                                     k |-> 0, kind |-> "Err",
                                     conts |-> [i \in 1..Len(Top.ctrl) |-> Top.ctrl[i].cont]]]
                     /\ UNCHANGED outcome
                ELSE /\ Len(frames) < MaxFrames
                     /\ frames' = Append(ReplaceTop(caller),
                                         Function_enter(functions, Cur.index, a.args))
                     /\ ret' = NoRet
                     /\ hist' = HistCall(Top, caller,
                                         num_params(functions[Cur.index + 1]))
                     /\ UNCHANGED outcome
    /\ UNCHANGED <<reader, functions, exports, memory>>

\* Call::execute, after the callee returned: `stack.push_value(...?)` and
\* Ok(ControlInfo::None)
Call_return(caller, r) ==
    IF r.ok THEN [frame |-> [caller EXCEPT !.stack = push_value(@, r.v)], tok |-> CI_None]
    ELSE [frame |-> caller, tok |-> Err(r.err)]

\* the innermost invocation ends with the Result r: it goes to the Call that
\* started it, or to the caller of Module::call
Exit(r) ==
    IF Len(frames) = 1
    THEN /\ outcome' = IF r.ok THEN Outcome("Ok", r.v, "")
                       ELSE Outcome("Err", Value_zero("I32"), r.err)
         /\ frames' = << >>
         /\ ret' = NoRet
    ELSE LET c == Call_return(frames[Len(frames) - 1], r)
         IN  /\ frames' = Append(SubSeq(frames, 1, Len(frames) - 2), c.frame)
             /\ ret' = c.tok
             /\ UNCHANGED outcome

\* Function::call, the match on the result of a top-level instruction
Function_step ==
    /\ InFunction /\ ret # NoRet
    /\ LET m == Function_match(ret, Top.stack)
       IN  CASE m.do = "next" ->
                    /\ frames' = ReplaceTop(SetPc(Top, Act.pc + 1))
                    /\ ret' = NoRet
                    /\ UNCHANGED <<outcome, hist>>
             [] m.do = "panic" ->
                    /\ outcome' = PanicOutcome("trap")
                    /\ UNCHANGED <<frames, ret, hist>>
             [] m.do = "exit" ->
                    /\ Exit(m.r)
                    /\ hist' = HistExit(ret.kind = "Return", Top.stack, m.r)
    /\ UNCHANGED <<reader, functions, exports, memory>>

\* Function::call, the top-level list ran off its end
Function_end ==
    /\ InFunction /\ AtEnd
    /\ Exit(do_return(Top.stack))
    /\ hist' = HistExit(TRUE, Top.stack, do_return(Top.stack))
    /\ UNCHANGED <<reader, functions, exports, memory>>

\* a Module::call that takes an export of any kind as a function
Module_call_AnyKind(function_name, args) ==
    /\ outcome = NotCalled
    /\ IF function_name \notin DOMAIN exports
          \/ exports[function_name].index >= Len(functions)
       THEN /\ outcome' = Outcome("Err", Value_zero("I32"), "Misc")
            /\ UNCHANGED <<frames, hist>>
       ELSE /\ outcome' = Running
            /\ frames' = <<Function_enter(functions, exports[function_name].index, args)>>
            /\ hist' = [hist EXCEPT !.args = args]
    /\ UNCHANGED <<reader, functions, exports, memory, ret>>

\* Module::call
Module_call(function_name, args) ==
    /\ outcome = NotCalled
    /\ IF function_name \notin DOMAIN exports
          \/ exports[function_name].kind # "Function"
          \/ exports[function_name].index >= Len(functions)
       THEN /\ outcome' = Outcome("Err", Value_zero("I32"), "Misc")
            /\ UNCHANGED <<frames, hist>>
       ELSE /\ outcome' = Running
            /\ frames' = <<Function_enter(functions, exports[function_name].index, args)>>
            /\ hist' = [hist EXCEPT !.args = args]
    /\ UNCHANGED <<reader, functions, exports, memory, ret>>

(***************************************************************************)
(* The modules the runs start from, as a driver builds them with           *)
(* Function::new, push_inst, new_locals, add_function, add_export and      *)
(* add_memory.                                                             *)
(***************************************************************************)
RECURSIVE SeqsOf(_, _)
\* the sequences of length n over S
SeqsOf(S, n) ==
    IF n = 0 THEN {<< >>}
    ELSE {Append(q, x) : q \in SeqsOf(S, n - 1), x \in S}

\* the continuations of up to MaxDepth nested blocks, the outermost first
Nestings == UNION {SeqsOf({"Loop", "Branch"}, n) : n \in 0..MaxDepth}

RECURSIVE Nest(_, _)
\* `leaf` inside Len(conts) nested blocks; every block is followed, in the
\* list that holds it, by a Const that marks "execution went on here"
Nest(conts, leaf) ==
    IF conts = << >> THEN leaf
    ELSE <<Block(Head(conts), Nest(Tail(conts), leaf)), I32Const(Len(conts))>>

\* the instruction sequences placed innermost
Leaves ==
    {<<Branch(k)>> : k \in 0..MaxDepth}
    \cup {<<I32Const(1), BranchIf(k)>> : k \in 0..1}
    \cup {<<I32Const(0), BranchIf(0)>>,
          <<I32Const(1), I32Const(1), IBinOp("I32", "Sub"), BranchIf(0)>>,
          <<Return>>,
          <<I32Const(7), Return>>,
          <<I32Const(7), I32Const(8), Return>>,
          <<I32Const(1), I32Const(0), IBinOp("I32", "DivS")>>,
          <<I32Const(I32_MIN), I32Const(-1), IBinOp("I32", "DivS")>>,
          <<I32Const(5), I32Const(0), IBinOp("I32", "RemS")>>,
          <<I32Const(65534), I32Const(5), Store(32, 0)>>,
          <<I32Const(65534), Load("I32", 32, 0)>>,
          <<I32Const(1000), Load("I32", 32, 0)>>,
          <<I32Const(0), Load("I32", 32, 4)>>,
          <<LocalSet(0)>>,
          <<LocalTee(0)>>}

\* what every module exports: two functions, a memory, a function index that
\* is out of range
Exports ==
    [n \in {"main", "inner", "mem", "tab", "glob", "bad"} |->
        CASE n = "main" -> Export("Function", 0)
          [] n = "inner" -> Export("Function", 1)
          [] n = "mem" -> Export("Memory", 0)
          [] n = "tab" -> Export("Table", 0)
          [] n = "glob" -> Export("Global", 0)
          [] n = "bad" -> Export("Function", 9)]

Module(fs, mem) == [functions |-> fs, exports |-> Exports, memory |-> mem]

\* main calls the function that holds the nest and adds 1 to its result
NestModules ==
    {Module(<<Function(<< >>, <<"I32">>, << >>,
                       <<I32Const(1), Call(1), IBinOp("I32", "Add")>>),
              Function(<< >>, <<"I32">>, <<"I32">>,
                       Nest(conts, leaf) \o <<I32Const(100)>>)>>,
            Memory_new(1, 1))
     : conts \in Nestings, leaf \in Leaves}

\* the words the hand-written modules store and pass
Words == {12345, -2, I32_MIN}

\* main(a, b) = a + b, and a two-parameter callee below a value that stays
\* on the caller's stack: 10 + (20 - 30)
CallModules ==
    {Module(<<Function(<<"I32", "I32">>, <<"I32">>, << >>,
                       <<LocalGet(0), LocalGet(1), IBinOp("I32", "Add")>>),
              Function(<< >>, <<"I32">>, << >>,
                       <<I32Const(10), I32Const(20), I32Const(30), Call(2),
                         IBinOp("I32", "Add")>>),
              Function(<<"I32", "I32">>, <<"I32">>, <<"I32">>,
                       <<LocalGet(0), LocalGet(1), IBinOp("I32", "Sub"), LocalTee(2)>>)>>,
            Memory_default)}

\* main stores at 100, the callee loads 100 and stores at 200, main loads 200
ShareModules ==
    {Module(<<Function(<< >>, <<"I32">>, << >>,
                       <<I32Const(100), I32Const(v), Store(32, 0), Call(1),
                         I32Const(196), Load("I32", 32, 4), IBinOp("I32", "Add")>>),
              Function(<< >>, <<"I32">>, << >>,
                       <<I32Const(200), I32Const(w), Store(32, 0),
                         I32Const(100), Load("I32", 32, 0)>>)>>,
            Memory_new(1, 1))
     : v \in Words, w \in Words}

\* f(n) = 7 if n = 0, and n + f(n - 1) otherwise; main calls f(2)
RecModules ==
    {Module(<<Function(<< >>, <<"I32">>, << >>,
                       <<I32Const(2), Call(1)>>),
              Function(<<"I32">>, <<"I32">>, <<"I32">>,
                       <<Block("Branch",
                               <<LocalGet(0), BranchIf(0), I32Const(7), Return>>),
                         LocalGet(0), LocalTee(1), LocalGet(0), I32Const(1),
                         IBinOp("I32", "Sub"), Call(1), IBinOp("I32", "Add")>>)>>,
            Memory_default)}

\* the widths of a store or load, and the result type of the load of a width
Widths == {8, 16, 32, 64}
LoadType(w) == IF w = 64 THEN "I64" ELSE "I32"

\* the constants the memory programs store, by the width of the store; the
\* last of the 64-bit ones is an i32, whose high word was never written
StoreValues(w) ==
    IF w = 64
    THEN {I64Const(16909060, 84281096), I64Const(-2, -1), I32Const(12345)}
    ELSE {I32Const(16909060), I32Const(-2), I32Const(12345)}

\* the addresses of a store of n bytes into `pages` pages: inside, ending
\* exactly at the virtual size, and ending one byte past it
StoreAddresses(pages, n) == {16, pages * PAGE_SIZE - n, pages * PAGE_SIZE - n + 1}

\* a store, then a load of the same width at the same effective address
RoundTripModules ==
    UNION {
      UNION {
        {Module(<<Function(<< >>, <<LoadType(w)>>, << >>,
                           <<I32Const(a), v, Store(w, 0),
                             I32Const(a - 4), Load(LoadType(w), w, 4)>>)>>,
                Memory_new(pages, pages))
         : v \in StoreValues(w), a \in StoreAddresses(pages, w \div 8)}
        : w \in Widths}
      : pages \in 1..2}

\* loads that overlap an earlier, wider store; a store that overlaps an
\* earlier one; a store past the end after one that ends at the end; loads
\* of memory that no store has reached
SliceBodies ==
    {<<I32Const(16), I32Const(16909060), Store(32, 0), I32Const(a), Load("I32", 8, 0)>>
       : a \in 16..19}
    \cup
    {<<I32Const(16), I32Const(16909060), Store(32, 0), I32Const(a), Load("I32", 16, 0)>>
       : a \in {16, 18}}
    \cup
    {<<I32Const(16), I64Const(16909060, 84281096), Store(64, 0),
       I32Const(a), Load("I32", 32, 0)>>
       : a \in {16, 20}}
    \cup
    {<<I32Const(16), I32Const(16909060), Store(32, 0),
       I32Const(17), I32Const(255), Store(8, 0),
       I32Const(16), Load("I32", 32, 0)>>,
     <<I32Const(PAGE_SIZE - 4), I32Const(12345), Store(32, 0),
       I32Const(PAGE_SIZE - 3), I32Const(12345), Store(32, 0)>>,
     <<I32Const(PAGE_SIZE - 4), I32Const(12345), Store(32, 0),
       I32Const(PAGE_SIZE - 2), Load("I32", 16, 0)>>,
     <<I32Const(6), Load("I32", 32, 0)>>,
     <<I32Const(40000), Load("I64", 64, 0)>>}

SliceModules ==
    {Module(<<Function(<< >>, <<"I32">>, << >>, body)>>, Memory_new(1, 1))
     : body \in SliceBodies}

\* the operators of IBinOpType the arithmetic programs use, and the
\* constants they are applied to: i32 words and i64 <<lo, hi>> pairs
ArithOps == {"Add", "Sub", "Mul", "DivS", "DivU", "RemS", "RemU"}
ShiftOps == {"Shl", "ShrS", "ShrU", "Rotl", "Rotr"}

Operands32 == {0, 1, -1, 2, -7, 46341, 65536, I32_MAX, I32_MIN}
Operands64 ==
    {<<0, 0>>, <<1, 0>>, <<-1, -1>>, <<2, 0>>, <<-7, -1>>, <<-1, 0>>, <<0, 1>>,
     <<-1, I32_MAX>>, <<0, I32_MIN>>}

Shifted32 == {1, -8, 12345, I32_MIN}
Shifted64 == {<<1, 0>>, <<-8, -1>>, <<12345, 678>>, <<0, I32_MIN>>}
Counts32 == {0, 1, 31, 32, 33, 64, -1, -31, I32_MIN}
Counts64 ==
    {<<0, 0>>, <<1, 0>>, <<31, 0>>, <<32, 0>>, <<63, 0>>, <<64, 0>>, <<65, 0>>,
     <<-1, -1>>, <<1, 5>>}

\* `a; b; op`: two constants of the type and the operator
BinOpBody(t, a, b, op) ==
    IF t = "I32" THEN <<I32Const(a), I32Const(b), IBinOp(t, op)>>
    ELSE <<I64Const(a[1], a[2]), I64Const(b[1], b[2]), IBinOp(t, op)>>

ArithBodies ==
    {BinOpBody("I32", a, b, op) : a \in Operands32, b \in Operands32, op \in ArithOps}
    \cup
    {BinOpBody("I64", a, b, op) : a \in Operands64, b \in Operands64, op \in ArithOps}
    \cup
    {BinOpBody("I32", a, b, op) : a \in Shifted32, b \in Counts32, op \in ShiftOps}
    \cup
    {BinOpBody("I64", a, b, op) : a \in Shifted64, b \in Counts64, op \in ShiftOps}

ArithModules ==
    {Module(<<Function(<< >>, <<body[3].t>>, << >>, body)>>, Memory_default)
     : body \in ArithBodies}

\* functions whose body ends with one value of a type `left` under a
\* declared result type `declared`, alone and behind a call
ResultModules ==
    {Module(<<Function(<< >>, <<declared>>, << >>, <<Call(1)>>),
              Function(<< >>, <<declared>>, << >>,
                       <<IF left = "I32" THEN I32Const(5) ELSE I64Const(5, 0)>>)>>,
            Memory_default)
     : declared \in {"I32", "I64"}, left \in {"I32", "I64"}}

\* functions that pop or peek with nothing, or one value, on the stack
StackBodies ==
    {<<LocalTee(0)>>, <<LocalSet(0)>>, <<BranchIf(0)>>, <<IBinOp("I32", "Add")>>,
     <<Load("I32", 32, 0)>>, <<Store(32, 0)>>,
     <<I32Const(1), LocalTee(0)>>, <<I32Const(1), LocalSet(0), I32Const(2)>>}

StackModules ==
    {Module(<<Function(<< >>, <<"I32">>, <<"I32">>, body)>>, Memory_default)
     : body \in StackBodies}

RelOps == {"Eq", "Neq", "LtS", "LtU", "GtS", "GtU", "LeS", "LeU", "GeS", "GeU"}

\* a comparison of two constants and a br_if on its result, inside a block;
\* the last body compares i32 constants as i64
RelBodies ==
    {<<Block("Branch", <<I32Const(a), I32Const(b), RelOp("I32", op), BranchIf(0),
                         I32Const(4), LocalSet(0)>>), LocalGet(0)>>
     : a \in {-1, 0, 1}, b \in {-1, 0}, op \in RelOps}
    \cup {<<Block("Branch", <<I64Const(a[1], a[2]), I64Const(b[1], b[2]),
                              RelOp("I64", op), BranchIf(0),
                              I32Const(4), LocalSet(0)>>), LocalGet(0)>>
           : a \in {<<0, 0>>, <<-1, -1>>, <<-1, 0>>, <<0, 1>>},
             b \in {<<0, 0>>, <<0, 1>>, <<-1, -1>>}, op \in RelOps}
    \cup {<<I32Const(0), I32Const(0), RelOp("I64", "Eq")>>,
           <<I32Const(0), I64Const(0, 0), RelOp("I64", "Eq")>>,
           <<I32Const(0), RelOp("I32", "Eq")>>,
           <<RelOp("I32", "Eq")>>}

\* conversions of a constant
CvtBodies ==
    {<<I64Const(v[1], v[2]), CvtOp("Wrap")>> : v \in Operands64}
    \cup {<<I32Const(x), CvtOp(op)>>
           : x \in {0, 5, -1, I32_MIN}, op \in {"Wrap", "ExtendS", "ExtendU"}}
    \cup {<<I64Const(7, 0), CvtOp("ExtendS")>>, <<CvtOp("Wrap")>>}

\* integer to float conversions of a constant, under the result type
ConvertOperands32 == {0, 1, -1, 5, I32_MIN, I32_MAX, 16777217}
ConvertOperands64 ==
    {<<0, 0>>, <<1, 0>>, <<-1, -1>>, <<-1, 0>>, <<0, I32_MIN>>, <<-1, I32_MAX>>, <<0, 1>>}

ConvertModules ==
    {Module(<<Function(<< >>, <<dst>>, << >>,
                       <<I32Const(x), Convert(s, "I32", dst)>>)>>, Memory_default)
     : x \in ConvertOperands32, s \in {"ConvertS", "ConvertU"}, dst \in {"F32", "F64"}}
    \cup
    {Module(<<Function(<< >>, <<dst>>, << >>,
                       <<I64Const(v[1], v[2]), Convert(s, "I64", dst)>>)>>, Memory_default)
     : v \in ConvertOperands64, s \in {"ConvertS", "ConvertU"}, dst \in {"F32", "F64"}}

\* branches taken with values on the stack: out of a block, out of two
\* blocks, and back to the start of a loop that runs twice
KeepBodies ==
    {<<Block("Branch", <<I32Const(7), Branch(0), I32Const(9)>>)>>,
     <<Block("Branch", <<I32Const(5),
                         Block("Branch", <<I32Const(7), Branch(1), I32Const(9)>>),
                         I32Const(9)>>)>>,
     <<Block("Branch", <<I32Const(7), I32Const(1), BranchIf(0), I32Const(9)>>)>>,
     <<I32Const(2), LocalSet(0),
       Block("Loop", <<I32Const(7), LocalGet(0), I32Const(1), IBinOp("I32", "Sub"),
                       LocalTee(0), BranchIf(0)>>)>>}

KeepModules ==
    {Module(<<Function(<< >>, <<"I32">>, <<"I32">>, body)>>, Memory_default)
     : body \in KeepBodies}

\* accesses whose address and offset add up to 2^32 or more (the words -1,
\* -4 and -8 are the u32 2^32 - 1, 2^32 - 4 and 2^32 - 8), and accesses
\* with a large address below 2^32
FarBodies ==
    {<<I32Const(-1), I32Const(5), Store(32, 5)>>,
     <<I32Const(-4), I32Const(5), Store(32, 4)>>,
     <<I32Const(8), I32Const(5), Store(8, -8)>>,
     <<I32Const(-1), Load("I32", 32, 5)>>,
     <<I32Const(-4), Load("I32", 8, 8)>>,
     <<I32Const(4), Load("I32", 32, -4)>>,
     <<I32Const(I32_MIN), I32Const(5), Store(32, 0)>>,
     <<I32Const(-8), Load("I32", 32, 4)>>}

FarModules ==
    {Module(<<Function(<< >>, <<"I32">>, << >>, body)>>, Memory_new(1, 1))
     : body \in FarBodies}

\* local.get, local.set and local.tee in a function of three locals, over
\* a memory that holds a stored word
LocalBodies ==
    {<<I32Const(16), I32Const(12345), Store(32, 0)>> \o body
     : body \in {<<I32Const(7), LocalSet(1), LocalGet(1), LocalGet(0), LocalGet(2)>>,
                 <<I32Const(5), I32Const(7), LocalTee(1), LocalGet(1)>>,
                 <<I32Const(5), LocalSet(0), I64Const(1, 2), LocalTee(2),
                   LocalSet(1), LocalGet(2), LocalGet(1)>>,
                 <<I32Const(5), LocalSet(2), I32Const(7), LocalTee(0), LocalGet(2)>>}}

LocalModules ==
    {Module(<<Function(<< >>, <<"I32">>, <<"I32", "I32", "I64">>, body)>>,
            Memory_new(1, 1))
     : body \in LocalBodies}

\* f32.const / f64.const: Const::new(Value::new(x)) of the float with these bits
F32Const(bits) == Const(Value_new("F32", bits, 0))
F64Const(lo, hi) == Const(Value_new("F64", lo, hi))

\* the bits of 0.0, -0.0, 1.0, 2.0, -1.0, a NaN and +infinity
Floats32 == {0, I32_MIN, 1065353216, 1073741824, -1082130432, 2143289344, 2139095040}
Floats64 ==
    {<<0, 0>>, <<0, I32_MIN>>, <<0, 1072693248>>, <<0, 1073741824>>, <<1, 1072693248>>,
     <<0, 2146959360>>}

FloatRelOps == {"Eq", "Neq", "LtS", "GeS"}

FloatRelModules ==
    {Module(<<Function(<< >>, <<"I32">>, << >>,
                       <<F32Const(a), F32Const(b), RelOp("F32", op)>>)>>, Memory_default)
     : a \in Floats32, b \in Floats32, op \in FloatRelOps}
    \cup
    {Module(<<Function(<< >>, <<"I32">>, << >>,
                       <<F64Const(a[1], a[2]), F64Const(b[1], b[2]), RelOp("F64", op)>>)>>,
            Memory_default)
     : a \in Floats64, b \in Floats64, op \in FloatRelOps}
    \cup
    {Module(<<Function(<< >>, <<"I32">>, << >>,
                       <<F32Const(0), F32Const(0), RelOp("F32", "LtU")>>)>>, Memory_default)}

ConvModules ==
    {Module(<<Function(<< >>, <<"I32">>, <<"I32">>, body)>>, Memory_default)
     : body \in RelBodies \cup CvtBodies}

Modules ==
    NestModules \cup CallModules \cup ShareModules \cup RecModules
    \cup RoundTripModules \cup SliceModules \cup ArithModules \cup ResultModules
    \cup StackModules \cup ConvModules \cup ConvertModules \cup FloatRelModules
    \cup KeepModules \cup FarModules \cup LocalModules

\* the names and argument vectors the driver may pass to Module::call
Names == {"main", "inner", "mem", "tab", "glob", "bad", "none"}
ArgVectors ==
    {<< >>, <<Value_new("I32", 2, 0)>>, <<Value_new("I32", 2, 0), Value_new("I32", 3, 0)>>}

(***************************************************************************)
(* The specification.                                                      *)
(***************************************************************************)
Init ==
    /\ \E m \in Modules :
          /\ functions = m.functions
          /\ exports = m.exports
          /\ memory = m.memory
    /\ frames = << >>
    /\ ret = NoRet
    /\ outcome = NotCalled
    /\ hist = HistInit
    /\ reader = ByteReader(<< >>, TRUE)

Call_module == \E function_name \in Names, args \in ArgVectors :
                  Module_call(function_name, args)

Next ==
    \/ Call_module
    \/ Exec_Const
    \/ Exec_IBinOp
    \/ Exec_RelOp
    \/ Exec_CvtOp
    \/ Exec_LocalGet
    \/ Exec_LocalSet
    \/ Exec_LocalTee
    \/ Exec_Load
    \/ Exec_Store
    \/ Exec_Branch
    \/ Exec_BranchIf
    \/ Exec_Return
    \/ Exec_Block
    \/ Exec_Call
    \/ Block_step
    \/ Block_end
    \/ Function_step
    \/ Function_end

Spec == Init /\ [][Next]_vars

(***************************************************************************)
(* Steps the claims speak about.                                           *)
(***************************************************************************)
\* the enclosing loop of the innermost list matches a waiting result
BlockGets(kind) == InBlock /\ ret.kind = kind
FunctionGets(kind) == InFunction /\ ret.kind = kind
\* the block whose loop is matching ends and hands `tok` to the list around it
BlockReturns(tok) == frames' = ReplaceTop(PopActivation(Top)) /\ ret' = tok
\* the loop that is matching goes on with its next instruction
GoesOn == frames' = ReplaceTop(SetPc(Top, Act.pc + 1)) /\ ret' = NoRet
\* the innermost invocation is over: its frame is gone
InvocationEnds == Len(frames') = Len(frames) - 1

(***************************************************************************)
(* C1.  A Trap(kind) that a body instruction returns to Block::execute is  *)
(* returned by the block at once, unchanged, for either continuation and   *)
(* at every nesting depth: the block ends and the list around it receives  *)
(* the same Trap(kind), so no later instruction of the block runs.         *)
(* The code does not do this: the arm `Ok(_) => ()` takes the Trap.        *)
(***************************************************************************)
C1_TrapLeavesBlock ==
    [][BlockGets("Trap") => BlockReturns(ret)]_vars

(***************************************************************************)
(* C2.  A Trap(kind) that reaches Function::call ends the invocation with  *)
(* a failure carrying that kind: Module::call's caller gets the failure    *)
(* (or, in a callee, the Call hands it on); no Value is returned and the   *)
(* process does not abort.  The code panics instead.                       *)
(***************************************************************************)
C2_TrapReportedAsFailure ==
    [][FunctionGets("Trap") =>
          /\ outcome'.kind # "Panic"
          /\ InvocationEnds
          /\ IF Len(frames) = 1
             THEN outcome'.kind = "Err" /\ outcome'.what = ret.what
             ELSE ret'.kind \in {"Trap", "Err"} /\ ret'.what = ret.what]_vars

(***************************************************************************)
(* C4.  The top-level list of a function is a Branch-continuation block:   *)
(* when a top-level instruction yields Branch(0), Function::call executes  *)
(* no later top-level instruction and goes on to extract the result (the   *)
(* invocation ends).  The code goes on with the next instruction instead.  *)
(***************************************************************************)
C4_TopLevelBranchEndsFunction ==
    [][(FunctionGets("Branch") /\ ret.depth = 0) => InvocationEnds]_vars

(***************************************************************************)
(* C3.  Branch depth semantics.  A Branch(k) raised inside nested blocks   *)
(* is forwarded by each block it leaves as Branch(d-1), so while it        *)
(* travels its depth is k minus the number of blocks left; the block that  *)
(* receives Branch(0) is the k-th one around the branch, and it restarts   *)
(* its body at the first instruction if it is a Loop and returns None if   *)
(* it is a Branch block; every list that receives None goes on with its    *)
(* next instruction.                                                       *)
(***************************************************************************)
BranchDepthTracksBlocksLeft ==
    (IsRunning /\ ret.kind = "Branch") =>
        /\ Len(frames) = hist.raised.frame
        /\ ret.depth = hist.raised.k - (hist.raised.level - Len(Top.ctrl))

BranchStep ==
    /\ BlockGets("Branch") =>
          IF ret.depth > 0
          THEN BlockReturns(CI_Branch(ret.depth - 1))
          ELSE /\ Len(Top.ctrl) = hist.raised.level - hist.raised.k
               /\ IF Act.cont = "Loop"
                  THEN frames' = ReplaceTop(SetPc(Top, 1)) /\ ret' = NoRet
                  ELSE BlockReturns(CI_None)
    /\ (IsRunning /\ ret = CI_None) => GoesOn

C3_BranchDepth == [](BranchDepthTracksBlocksLeft) /\ [][BranchStep]_vars

\* a Loop two levels out of a `br 2` that sits in three nested blocks has just
\* been restarted by it
C3_Witness ==
    /\ IsRunning /\ ret = NoRet
    /\ hist.raised.kind = "Branch" /\ hist.raised.k = 2
    /\ hist.raised.level >= 4
    /\ Len(frames) = hist.raised.frame
    /\ Len(Top.ctrl) = hist.raised.level - 2
    /\ Act.cont = "Loop" /\ Act.pc = 1

(***************************************************************************)
(* C5.  A Return is forwarded unchanged by every block around it, Loop or  *)
(* not, and is caught by the Function::call of the invocation it ran in:   *)
(* that invocation ends at once.  If a Call started the invocation, the    *)
(* frames below the caller and the caller's position are untouched, the    *)
(* Call yields None (with the result pushed) or the error of the result    *)
(* extraction, never Return, and on None the caller goes on with the       *)
(* instruction after the Call.                                             *)
(***************************************************************************)
ReturnStep ==
    /\ BlockGets("Return") => BlockReturns(CI_Return)
    /\ FunctionGets("Return") =>
          /\ InvocationEnds
          /\ IF Len(frames) = 1
             THEN outcome'.kind \in {"Ok", "Err"}
             ELSE LET caller == frames[Len(frames) - 1]
                      after == frames'[Len(frames')]
                      list == caller.ctrl[Len(caller.ctrl)]
                  IN  /\ \A i \in 1..(Len(frames) - 2) : frames'[i] = frames[i]
                      /\ after.ctrl = caller.ctrl
                      /\ list.instructions[list.pc].op = "Call"
                      /\ ret'.kind \in {"None", "Err"}
                      /\ ret' = CI_None =>
                            after.stack = Append(caller.stack, Top.stack[Len(Top.stack)])
    /\ (IsRunning /\ ret = CI_None /\ Cur.op = "Call") => GoesOn

ExitsThroughDoReturn == InFunction /\ (ret = CI_Return \/ AtEnd)

YieldsOk(v) ==
    /\ InvocationEnds
    /\ IF Len(frames) = 1
       THEN outcome' = Outcome("Ok", v, "")
       ELSE /\ ret' = CI_None
            /\ frames'[Len(frames')].stack = Append(frames[Len(frames) - 1].stack, v)

YieldsErr(e) ==
    /\ InvocationEnds
    /\ IF Len(frames) = 1
       THEN outcome' = Outcome("Err", Value_zero("I32"), e)
       ELSE ret' = Err(e) /\ frames'[Len(frames')] = frames[Len(frames) - 1]

StackBalanceStep ==
    /\ ExitsThroughDoReturn =>
          IF Len(Top.stack) = 1 THEN YieldsOk(Top.stack[1])
          ELSE YieldsErr("StackViolation")
    /\ (outcome'.kind = "Ok" /\ outcome.kind # "Ok") =>
          ExitsThroughDoReturn /\ Len(Top.stack) = 1

C6_StackBalance == [][StackBalanceStep]_vars

\* Module::call has failed with StackViolation on an invocation that ended
\* with two values on its stack
C6_Witness ==
    /\ outcome = Outcome("Err", Value_zero("I32"), "StackViolation")
    /\ hist.exit.valid /\ hist.exit.n = 2 /\ ~hist.exit.ok /\ hist.exit.frame = 1

(***************************************************************************)
(* C7.  Call protocol.  A Call to a function with p parameters that starts *)
(* the callee removes exactly the top p values of the caller's stack and   *)
(* binds them to the callee's locals 0..p-1 in the order they were pushed  *)
(* (pushed first = local 0, pushed last = local p-1); when the callee      *)
(* yields its result the Call pushes exactly that one value, so the        *)
(* caller's stack is what it was below the arguments plus the result: its  *)
(* depth has changed by 1 - p.                                             *)
(***************************************************************************)
CallStarts == Fetching /\ Cur.op = "Call" /\ Len(frames') = Len(frames) + 1
\* the innermost invocation, started by a Call, ends and the Call yields None
CallSucceeds ==
    IsRunning /\ Len(frames) > 1 /\ Len(frames') = Len(frames) - 1 /\ ret' = CI_None

CallProtocolStep ==
    /\ CallStarts =>
          LET p == Len(functions[Cur.index + 1].params)
              n == Len(Top.stack)
              callee == frames'[Len(frames')]
              caller == frames'[Len(frames)]
          IN  /\ p <= n
              /\ caller.stack = SubSeq(Top.stack, 1, n - p)
              /\ \A i \in 1..p : callee.locals[i] = Top.stack[n - p + i]
    /\ CallSucceeds =>
          LET c == hist.calls[Len(hist.calls)]
              after == frames'[Len(frames')]
              n == Len(c.before)
          IN  /\ Len(Top.stack) = 1
              /\ after.stack = Append(SubSeq(c.before, 1, n - c.p), Top.stack[1])
              /\ Len(after.stack) = n + 1 - c.p

C7_CallProtocol == [][CallProtocolStep]_vars

\* a Call of a two-parameter function with 10, 20, 30 on the stack has
\* returned: the callee saw local 0 = 20 and local 1 = 30, and the caller
\* holds 10 and the result 20 - 30
C7_Witness ==
    /\ IsRunning /\ ret = CI_None /\ Cur.op = "Call"
    /\ Len(functions[Cur.index + 1].params) = 2
    /\ hist.exit.valid /\ hist.exit.ok /\ hist.exit.frame = Len(frames) + 1
    /\ Len(Top.stack) = 2
    /\ Top.stack[1].lo = 10 /\ Top.stack[2].lo = -10

(***************************************************************************)
(* C8.  Call isolation.  While a callee runs (a recursive one included)    *)
(* every invocation below it keeps the stack, the locals and the position  *)
(* the Call left it with; when the callee ends, with a result or with an   *)
(* error, the caller's locals and its stack entries below the arguments    *)
(* are what they were before the Call.  An invocation starts with an empty *)
(* value stack and with locals that are its arguments followed by the zero *)
(* of each declared local.                                                 *)
(***************************************************************************)
CallersUntouched ==
    IsRunning =>
        /\ Len(hist.calls) = Len(frames) - 1
        /\ \A i \in 1..(Len(frames) - 1) :
              /\ frames[i].stack = hist.calls[i].below
              /\ frames[i].locals = hist.calls[i].locals
              /\ frames[i].ctrl = hist.calls[i].ctrl

CallIsolationStep ==
    /\ CallStarts =>
          LET f == functions[Cur.index + 1]
              p == Len(f.params)
              n == Len(Top.stack)
              callee == frames'[Len(frames')]
              caller == frames'[Len(frames)]
          IN  /\ callee.stack = << >>
              /\ Len(callee.locals) = p + Len(f.local_types)
              /\ \A i \in 1..p : callee.locals[i] = Top.stack[n - p + i]
              /\ \A i \in 1..Len(f.local_types) :
                    callee.locals[p + i] =
                        [t |-> f.local_types[i], lo |-> 0, hi |-> 0,
                         hi_init |-> f.local_types[i] \in {"I64", "F64"}]
              /\ caller.locals = Top.locals
    /\ (IsRunning /\ Len(frames) > 1 /\ Len(frames') = Len(frames) - 1) =>
          LET c == hist.calls[Len(hist.calls)]
              after == frames'[Len(frames')]
              n == Len(c.before) - c.p
          IN  /\ after.locals = c.locals
              /\ Len(after.stack) >= n
              /\ SubSeq(after.stack, 1, n) = SubSeq(c.before, 1, n)

C8_CallIsolation == [](CallersUntouched) /\ [][CallIsolationStep]_vars

\* f(2) gets the result of its recursive call f(1), which set its own local
\* 1 to 1: local 1 of f(2) is still 2 and the 2 below the argument is still
\* on its stack
C8_Witness ==
    /\ IsRunning /\ ret = CI_None /\ Cur.op = "Call"
    /\ Len(frames) = 2 /\ Cur.index = Top.fn
    /\ hist.exit.valid /\ hist.exit.ok /\ hist.exit.frame = 3
    /\ Top.locals[1].lo = 2 /\ Top.locals[2].lo = 2
    /\ Len(Top.stack) = 2 /\ Top.stack[1].lo = 2

(***************************************************************************)
(* C9.  One linear memory is shared by the whole call chain.  A load of an *)
(* address that an earlier store of the same width wrote (and no later     *)
(* store overlapped) yields the value stored, whichever invocation stored  *)
(* and whichever loads: the caller sees after the call what the callee     *)
(* stored, the callee sees what the caller stored before the call.         *)
(* Starting and ending an invocation leaves the memory as it is.           *)
(***************************************************************************)
LoadSeesStore == hist.load.valid => hist.load.got = hist.load.want

C9_SharedMemory ==
    /\ [](LoadSeesStore)
    /\ [][(Len(frames') # Len(frames)) => memory' = memory]_vars

\* both directions have happened in one run: the callee (depth 2) loaded the
\* caller's store, and the caller (depth 1) has just loaded the callee's
C9_Witness ==
    /\ {<<1, 2>>, <<2, 1>>} \subseteq hist.seen
    /\ hist.load.valid /\ hist.load.storer = 2 /\ hist.load.loader = 1
    /\ hist.load.got = hist.load.want

(***************************************************************************)
(* C10.  Load bounds.  A load of bitwidth w at effective address a         *)
(* succeeds and pushes a value iff a + w/8 <= pages_virtual * 65536;       *)
(* otherwise it yields Trap(MemoryOutOfBounds), pushes nothing and does    *)
(* not abort.  The code does not do this: Memory::read never compares the  *)
(* address with the virtual size and indexes the Vec, which panics at or   *)
(* past its length.                                                        *)
(***************************************************************************)
LoadRuns ==
    /\ Fetching /\ Cur.op = "Load"
    /\ Len(Top.stack) > 0 /\ Top.stack[Len(Top.stack)].t = "I32"

C10_LoadBounds ==
    [][LoadRuns =>
          LET a == AccessAddress(Cur, Top.stack)
              below == SubSeq(Top.stack, 1, Len(Top.stack) - 1)
              after == frames'[Len(frames')]
          IN  /\ outcome'.kind # "Panic"
              /\ IF a + (Cur.bitwidth \div 8) <= memory.virtual_size_pages * PAGE_SIZE
                 THEN /\ ret' = CI_None
                      /\ Len(after.stack) = Len(below) + 1
                      /\ SubSeq(after.stack, 1, Len(below)) = below
                 ELSE /\ ret' = CI_Trap("MemoryOutOfBounds")
                      /\ after.stack = below]_vars

(***************************************************************************)
(* C11.  Store bounds.  A store of bitwidth w at effective address a       *)
(* succeeds iff a + w/8 <= pages_virtual * 65536; otherwise it yields      *)
(* Trap(MemoryOutOfBounds) and the memory is as it was: every byte and the *)
(* length of the backing buffer.  The store itself never aborts.           *)
(***************************************************************************)
StoreRuns ==
    /\ Fetching /\ Cur.op = "Store" /\ Cur.bitwidth \in Widths
    /\ Len(Top.stack) >= 2 /\ Top.stack[Len(Top.stack) - 1].t = "I32"

C11_StoreBounds ==
    [][StoreRuns =>
          LET a == AccessAddress(Cur, Top.stack)
          IN  /\ outcome' = outcome
              /\ IF a + (Cur.bitwidth \div 8) <= memory.virtual_size_pages * PAGE_SIZE
                 THEN ret' = CI_None
                 ELSE ret' = CI_Trap("MemoryOutOfBounds") /\ memory' = memory]_vars

\* a store that ended exactly at the virtual size has succeeded (the buffer
\* has grown to the end of the page) and the next one, a byte further, has
\* just been refused
C11_Witness ==
    /\ IsRunning /\ ret = CI_Trap("MemoryOutOfBounds")
    /\ Cur.op = "Store" /\ hist.raised.kind = "Trap"
    /\ memory.len > PAGE_SIZE - 4
    /\ (PAGE_SIZE - 4) \in DOMAIN hist.stores

(***************************************************************************)
(* C12.  A read of a byte range that lies inside the virtual size but,     *)
(* wholly or partly, past the end of the backing buffer succeeds and       *)
(* yields zero for every byte past the end; it neither fails nor aborts.   *)
(* The code does not do this: Memory::read indexes the Vec past its length *)
(* and panics.                                                             *)
(***************************************************************************)
C12_ReadPastWrittenIsZero ==
    [][(/\ LoadRuns
        /\ AccessAddress(Cur, Top.stack) + (Cur.bitwidth \div 8)
              <= memory.virtual_size_pages * PAGE_SIZE
        /\ AccessAddress(Cur, Top.stack) + (Cur.bitwidth \div 8) > memory.len)
       =>
          LET a == AccessAddress(Cur, Top.stack)
              padded == [memory EXCEPT !.len = a + (Cur.bitwidth \div 8)]
              after == frames'[Len(frames')]
          IN  /\ outcome' = outcome
              /\ ret' = CI_None
              /\ after.stack[Len(after.stack)] =
                    Memory_read(padded, Cur.t, Cur.bitwidth, a).v]_vars

(***************************************************************************)
(* C13.  The length of the backing byte buffer never exceeds               *)
(* pages_virtual * 65536: after Memory::new and after any sequence of      *)
(* writes, refused ones included, also after a write that ends exactly at  *)
(* the virtual size.  The code does not do this: such a write resizes the  *)
(* Vec to one byte more than its end.                                      *)
(***************************************************************************)
C13_BufferWithinVirtualSize ==
    memory.len <= memory.virtual_size_pages * PAGE_SIZE

(***************************************************************************)
(* C14.  Round-trip store/load.  A store pops the value first and then the *)
(* address; when it succeeds with width w at address a, a read of width w  *)
(* at a returns the value's payload mod 2^w, and so does every later Load  *)
(* of that width at that address that no store overlapping [a, a + w/8)    *)
(* has come before.                                                        *)
(***************************************************************************)
RoundTripLoad == hist.load.valid => hist.load.got = hist.load.want

RoundTripStep ==
    (StoreRuns /\ ret' = CI_None) =>
        LET a == AccessAddress(Cur, Top.stack)
            n == Cur.bitwidth \div 8
            v == Top.stack[Len(Top.stack)]
            back == Memory_read(memory', LoadType(Cur.bitwidth), Cur.bitwidth, a)
        IN  /\ frames'[Len(frames')].stack = SubSeq(Top.stack, 1, Len(Top.stack) - 2)
            /\ back.res = "Some"
            /\ back.v.t = LoadType(Cur.bitwidth)
            /\ (n <= 4 \/ v.hi_init) => <<back.v.lo, back.v.hi>> = LowBits(v.lo, v.hi, n)

C14_RoundTrip == [](RoundTripLoad) /\ [][RoundTripStep]_vars

\* a 16-bit store of 0x01020304 has been loaded back as 0x0304
C14_Witness ==
    /\ hist.load.valid /\ hist.load.n = 2
    /\ hist.load.got = <<772, 0>>
    /\ IsRunning /\ ret = CI_None /\ Cur.op = "Load"
    /\ Top.stack[Len(Top.stack)].lo = 772

(***************************************************************************)
(* C15.  Memory byte order is little-endian: after a store of v with width *)
(* w at address a, the byte at a + i is (v >> 8i) & 0xFF for every         *)
(* 0 <= i < w/8.  The code does not do this: Memory::write puts the least  *)
(* significant byte at the highest address.                                *)
(***************************************************************************)
C15_LittleEndian ==
    [][(StoreRuns /\ ret' = CI_None) =>
          LET a == AccessAddress(Cur, Top.stack)
              v == Top.stack[Len(Top.stack)]
          IN  \A i \in 0..((Cur.bitwidth \div 8) - 1) :
                 (i < 4 \/ v.hi_init) =>
                    ByteAt(memory', a + i) = ValueByte(v.lo, v.hi, i)]_vars

(***************************************************************************)
(* Arithmetic modulo 2^32 and 2^64 stated on the integers: the sum and the *)
(* difference by the cases of overflow, the product by doubling and        *)
(* halving.  A 64-bit integer is its pair <<lo, hi>> of two's-complement   *)
(* words.                                                                  *)
(***************************************************************************)
\* x < y for the words read as unsigned
ULT32(x, y) == IF (x < 0) = (y < 0) THEN x < y ELSE y < 0

\* (a + b) mod 2^32
Sum32(a, b) ==
    IF a >= 0 /\ b >= 0 /\ a > I32_MAX - b THEN (a + I32_MIN) + (b + I32_MIN)
    ELSE IF a < 0 /\ b < 0 /\ a < I32_MIN - b THEN (a - I32_MIN) + (b - I32_MIN)
    ELSE a + b

\* (a - b) mod 2^32
Diff32(a, b) ==
    IF a >= 0 /\ b < 0 /\ a > I32_MAX + b THEN (a + I32_MIN) - (b - I32_MIN)
    ELSE IF a < 0 /\ b >= 0 /\ a < I32_MIN + b THEN (a - I32_MIN) - (b + I32_MIN)
    ELSE a - b

\* (a * b) mod 2^32
RECURSIVE Prod32(_, _)
Prod32(a, b) ==
    IF b = 0 THEN 0
    ELSE IF b = I32_MIN THEN (IF a % 2 = 0 THEN 0 ELSE I32_MIN)
    ELSE IF b < 0 THEN Diff32(0, Prod32(a, -b))
    ELSE LET twice == Sum32(a, a)
             rest == Prod32(twice, b \div 2)
         IN  IF twice \in {twice} /\ b % 2 = 1 THEN Sum32(a, rest) ELSE rest

\* (x + y) mod 2^64 and (x - y) mod 2^64
Sum64(x, y) ==
    LET lo == Sum32(x[1], y[1])
    IN  <<lo, Sum32(Sum32(x[2], y[2]), IF ULT32(lo, x[1]) THEN 1 ELSE 0)>>

Diff64(x, y) ==
    <<Diff32(x[1], y[1]),
      Diff32(Diff32(x[2], y[2]), IF ULT32(x[1], y[1]) THEN 1 ELSE 0)>>

\* x / 2 for x read as unsigned
Half32(x) == IF x >= 0 THEN x \div 2 ELSE (x \div 2) - I32_MIN
Half64(x) ==
    <<IF x[2] % 2 = 1 THEN Half32(x[1]) + I32_MIN ELSE Half32(x[1]), Half32(x[2])>>

\* (x * y) mod 2^64
RECURSIVE Prod64(_, _)
Prod64(x, y) ==
    IF y = <<0, 0>> THEN <<0, 0>>
    ELSE LET twice == Sum64(x, x)
             half == Half64(y)
             rest == Prod64(twice, half)
         IN  IF twice \in {twice} /\ half \in {half} /\ y[1] % 2 = 1
             THEN Sum64(x, rest) ELSE rest

\* an integer binary operator of `ops` is about to run on two operands of
\* its own type
IBinOpRuns(ops) ==
    /\ Fetching /\ Cur.op = "IBinOp" /\ Cur.kind \in ops
    /\ Cur.t \in {"I32", "I64"}
    /\ Len(Top.stack) >= 2
    /\ Top.stack[Len(Top.stack)].t = Cur.t
    /\ Top.stack[Len(Top.stack) - 1].t = Cur.t
    /\ Cur.t = "I64" =>
          Top.stack[Len(Top.stack)].hi_init /\ Top.stack[Len(Top.stack) - 1].hi_init

\* the operands of the operator about to run, the first pushed first
Operand0 == Top.stack[Len(Top.stack) - 1]
Operand1 == Top.stack[Len(Top.stack)]

\* the step pushed, in place of the two operands, a value of the operator's
\* type whose integer is `lo` (I32) or the pair `pair` (I64)
Pushed32(lo) ==
    /\ outcome' = outcome /\ ret' = CI_None
    /\ Len(frames') = Len(frames)
    /\ LET stack == frames'[Len(frames')].stack
       IN  /\ Len(stack) = Len(Top.stack) - 1
           /\ SubSeq(stack, 1, Len(stack) - 1) = SubSeq(Top.stack, 1, Len(Top.stack) - 2)
           /\ stack[Len(stack)].t = "I32"
           /\ stack[Len(stack)].lo = lo

Pushed64(pair) ==
    /\ outcome' = outcome /\ ret' = CI_None
    /\ Len(frames') = Len(frames)
    /\ LET stack == frames'[Len(frames')].stack
       IN  /\ Len(stack) = Len(Top.stack) - 1
           /\ SubSeq(stack, 1, Len(stack) - 1) = SubSeq(Top.stack, 1, Len(Top.stack) - 2)
           /\ stack[Len(stack)].t = "I64"
           /\ stack[Len(stack)].hi_init
           /\ <<stack[Len(stack)].lo, stack[Len(stack)].hi>> = pair

\* the constants of the arithmetic program whose operator has just run
ArithRan(t, op, a, b) ==
    /\ IsRunning /\ Act.pc = 3 /\ Len(Act.instructions) = 3
    /\ Cur.op = "IBinOp" /\ Cur.t = t /\ Cur.kind = op
    /\ Act.instructions[1].op = "Const" /\ Act.instructions[2].op = "Const"
    /\ <<Act.instructions[1].value.lo, Act.instructions[1].value.hi>> = a
    /\ <<Act.instructions[2].value.lo, Act.instructions[2].value.hi>> = b

(***************************************************************************)
(* C16.  Wrapping arithmetic: for every pair (a, b) of i32 values and op   *)
(* in {add, sub, mul} the instruction pushes (a op b) mod 2^32 in two's    *)
(* complement and neither traps nor fails on overflow; the same holds for  *)
(* i64 modulo 2^64.                                                        *)
(***************************************************************************)
Wrapped32(op, a, b) ==
    CASE op = "Add" -> Sum32(a, b)
      [] op = "Sub" -> Diff32(a, b)
      [] op = "Mul" -> Prod32(a, b)

Wrapped64(op, x, y) ==
    CASE op = "Add" -> Sum64(x, y)
      [] op = "Sub" -> Diff64(x, y)
      [] op = "Mul" -> Prod64(x, y)

C16_WrappingArithmetic ==
    [][IBinOpRuns({"Add", "Sub", "Mul"}) =>
          IF Cur.t = "I32"
          THEN Pushed32(Wrapped32(Cur.kind, Operand0.lo, Operand1.lo))
          ELSE Pushed64(Wrapped64(Cur.kind, <<Operand0.lo, Operand0.hi>>,
                                            <<Operand1.lo, Operand1.hi>>))]_vars

\* 2147483647 + 1 has been computed: the result is -2147483648, no trap
C16_Witness ==
    /\ ArithRan("I32", "Add", <<I32_MAX, 0>>, <<1, 0>>)
    /\ ret = CI_None
    /\ Top.stack = <<from_explicit_type("I32", I32_MIN, -1)>>

(***************************************************************************)
(* Division on the integers.  Signed division truncates toward zero and    *)
(* the remainder has the sign of the dividend; unsigned division reads     *)
(* the words as naturals below 2^32 or 2^64.                               *)
(***************************************************************************)
Abs32(x) == IF x < 0 THEN -x ELSE x

\* the truncated quotient of a by b, for b # 0 and (a, b) # (MIN, -1)
Quot32S(a, b) ==
    IF b = I32_MIN THEN (IF a = I32_MIN THEN 1 ELSE 0)
    ELSE IF b = 1 THEN a
    ELSE IF a = I32_MIN
    THEN LET q == ((I32_MAX - Abs32(b) + 1) \div Abs32(b)) + 1
         IN  IF b > 0 THEN -q ELSE q
    ELSE LET q == Abs32(a) \div Abs32(b)
         IN  IF (a < 0) # (b < 0) THEN -q ELSE q

Rem32S(a, b) == IF b = -1 THEN 0 ELSE a - Quot32S(a, b) * b

\* <<quotient, remainder>> of the words read as unsigned, for b # 0
DivMod32U(a, b) ==
    IF b < 0 THEN (IF ULT32(a, b) THEN <<0, a>> ELSE <<1, Diff32(a, b)>>)
    ELSE IF a >= 0 THEN <<a \div b, a % b>>
    ELSE LET h == Half32(a)
             bit == a % 2
             q0 == h \div b
             r0 == h % b
         IN  IF r0 >= b - r0 - bit
             THEN <<Sum32(Sum32(q0, q0), 1), r0 - (b - r0 - bit)>>
             ELSE <<Sum32(q0, q0), r0 + r0 + bit>>

\* x < y for the pairs read as unsigned 64-bit integers
ULT64(x, y) == IF x[2] = y[2] THEN ULT32(x[1], y[1]) ELSE ULT32(x[2], y[2])

\* <<quotient, remainder>> of the pairs read as unsigned, for y # 0: the
\* division of x / 2 by y, doubled
RECURSIVE DivMod64U(_, _)
DivMod64U(x, y) ==
    IF ULT64(x, y) THEN <<<<0, 0>>, x>>
    ELSE LET d == DivMod64U(Half64(x), y)
             bit == <<x[1] % 2, 0>>
             room == Diff64(Diff64(y, d[2]), bit)
         IN  IF ~ULT64(d[2], room)
             THEN <<Sum64(Sum64(d[1], d[1]), <<1, 0>>), Diff64(d[2], room)>>
             ELSE <<Sum64(d[1], d[1]), Sum64(Sum64(d[2], d[2]), bit)>>

Neg64(x) == Diff64(<<0, 0>>, x)
Abs64(x) == IF x[2] < 0 THEN Neg64(x) ELSE x

\* <<quotient, remainder>> of the pairs read as signed, for y # 0
DivMod64S(x, y) ==
    LET d == DivMod64U(Abs64(x), Abs64(y))
    IN  <<IF (x[2] < 0) # (y[2] < 0) THEN Neg64(d[1]) ELSE d[1],
          IF x[2] < 0 THEN Neg64(d[2]) ELSE d[2]>>

(***************************************************************************)
(* C17.  An integer div/rem instruction of i32 or i64 yields               *)
(* Trap(UndefinedDivision) iff the divisor is zero or the instruction is   *)
(* div_s of TYPE_MIN by -1, and then pushes nothing; otherwise it pushes   *)
(* the quotient or remainder, and rem_s(TYPE_MIN, -1) pushes 0.            *)
(***************************************************************************)
DivisionOps == {"DivS", "DivU", "RemS", "RemU"}

DivisionUndefined(t, op, a, b) ==
    \/ b = <<0, 0>>
    \/ /\ op = "DivS"
       /\ a = (IF t = "I32" THEN <<I32_MIN, 0>> ELSE <<0, I32_MIN>>)
       /\ b = (IF t = "I32" THEN <<-1, 0>> ELSE <<-1, -1>>)

Divided32(op, a, b) ==
    CASE op = "DivS" -> Quot32S(a, b)
      [] op = "RemS" -> Rem32S(a, b)
      [] op = "DivU" -> DivMod32U(a, b)[1]
      [] op = "RemU" -> DivMod32U(a, b)[2]

Divided64(op, x, y) ==
    CASE op = "DivS" -> DivMod64S(x, y)[1]
      [] op = "RemS" -> DivMod64S(x, y)[2]
      [] op = "DivU" -> DivMod64U(x, y)[1]
      [] op = "RemU" -> DivMod64U(x, y)[2]

\* the word pair of an operand: the high word of an i32 is not part of it
OperandPair(v) == IF v.t = "I32" THEN <<v.lo, 0>> ELSE <<v.lo, v.hi>>

C17_DivisionTraps ==
    [][IBinOpRuns(DivisionOps) =>
          IF DivisionUndefined(Cur.t, Cur.kind, OperandPair(Operand0), OperandPair(Operand1))
          THEN /\ outcome' = outcome
               /\ ret' = CI_Trap("UndefinedDivision")
               /\ memory' = memory
               /\ Len(frames') = Len(frames)
               /\ frames'[Len(frames')].stack = SubSeq(Top.stack, 1, Len(Top.stack) - 2)
          ELSE IF Cur.t = "I32"
          THEN Pushed32(Divided32(Cur.kind, Operand0.lo, Operand1.lo))
          ELSE Pushed64(Divided64(Cur.kind, OperandPair(Operand0), OperandPair(Operand1)))]_vars

\* i32.div_s of MIN by -1 has trapped and has left nothing on the stack
C17_Witness ==
    /\ ArithRan("I32", "DivS", <<I32_MIN, 0>>, <<-1, 0>>)
    /\ ret = CI_Trap("UndefinedDivision")
    /\ Top.stack = << >>

(***************************************************************************)
(* Shifts and rotations by one bit, stated on the integers, and their      *)
(* repetition.  A value is its pair <<lo, hi>>; the high word of an i32 is *)
(* kept 0.                                                                 *)
(***************************************************************************)
ByOne(t, op, x) ==
    IF t = "I32"
    THEN <<CASE op = "Shl" -> Sum32(x[1], x[1])
             [] op = "ShrU" -> Half32(x[1])
             [] op = "ShrS" -> x[1] \div 2
             [] op = "Rotl" -> Sum32(Sum32(x[1], x[1]), IF x[1] < 0 THEN 1 ELSE 0)
             [] op = "Rotr" -> Half32(x[1]) + (IF x[1] % 2 = 1 THEN I32_MIN ELSE 0),
           0>>
    ELSE CASE op = "Shl" -> Sum64(x, x)
           [] op = "ShrU" -> Half64(x)
           [] op = "ShrS" -> <<Half64(x)[1], x[2] \div 2>>
           [] op = "Rotl" -> Sum64(Sum64(x, x), <<IF x[2] < 0 THEN 1 ELSE 0, 0>>)
           [] op = "Rotr" -> <<Half64(x)[1],
                               Half32(x[2]) + (IF x[1] % 2 = 1 THEN I32_MIN ELSE 0)>>

\* op applied with a count c in 0 .. bitwidth - 1
RECURSIVE ByCount(_, _, _, _)
ByCount(t, op, x, c) ==
    IF c = 0 THEN x
    ELSE LET y == ByOne(t, op, x)
         IN  \* y is a value before the next step takes it
             IF y \in {y} THEN ByCount(t, op, y, c - 1) ELSE x

BitWidth(t) == IF t = "I32" THEN 32 ELSE 64

(***************************************************************************)
(* C18.  Shift modularity: for every i32 or i64 value v, every shift or    *)
(* rotate instruction and every count k of the operand type, negative k    *)
(* and k >= bitwidth included, the result is that of the operation with    *)
(* the count k mod bitwidth, k read as unsigned.                           *)
(***************************************************************************)
\* k mod bitwidth for the count read as unsigned: the width divides 2^32
CountModWidth(t, k) == k.lo % BitWidth(t)

C18_ShiftModularity ==
    [][IBinOpRuns(ShiftOps) =>
          LET r == ByCount(Cur.t, Cur.kind, OperandPair(Operand0),
                           CountModWidth(Cur.t, Operand1))
          IN  IF Cur.t = "I32" THEN Pushed32(r[1]) ELSE Pushed64(r)]_vars

\* i32.shl of 1 by 33 has pushed 2, the result of the shift by 1
C18_Witness ==
    /\ ArithRan("I32", "Shl", <<1, 0>>, <<33, 0>>)
    /\ ret = CI_None
    /\ Top.stack = <<from_explicit_type("I32", 2, 0)>>

(***************************************************************************)
(* C19.  Result type agreement: whenever Module.call or Function.call      *)
(* returns Ok(v), the tag of v is the sole result type the function        *)
(* declares; a body that leaves a value of another tag does not produce a  *)
(* successful result.  The code does not do this: Function::do_return      *)
(* returns the popped value whatever its tag.                              *)
(***************************************************************************)
\* the function of the innermost invocation
Running_function == functions[Top.fn + 1]

C19_ResultTypeAgreement ==
    [][(InFunction /\ InvocationEnds /\ Len(Running_function.returns) = 1) =>
          IF Len(frames) = 1
          THEN outcome'.kind = "Ok" => outcome'.v.t = Running_function.returns[1]
          ELSE ret' = CI_None =>
                  LET stack == frames'[Len(frames')].stack
                  IN  stack[Len(stack)].t = Running_function.returns[1]]_vars

(***************************************************************************)
(* C20.  On entering a function with num_params parameters and num_locals  *)
(* declared locals, the locals vector has exactly num_params + num_locals  *)
(* slots for every argument vector passed to Module.call: the first        *)
(* num_params slots hold the arguments in order and slot num_params + j    *)
(* holds the zero of the j-th declared local type.  The code does not do   *)
(* this: Function::call pushes every argument it is given, however many    *)
(* parameters the function declares.                                       *)
(***************************************************************************)
LocalsLayout(f, args, locals) ==
    /\ Len(locals) = num_params(f) + Len(f.local_types)
    /\ \A i \in 1..num_params(f) : i <= Len(args) /\ locals[i] = args[i]
    /\ \A j \in 1..Len(f.local_types) :
          locals[num_params(f) + j] = Value_zero(f.local_types[j])

C20_LocalsLayout ==
    [][\A function_name \in Names, args \in ArgVectors :
          (Module_call(function_name, args) /\ outcome' = Running) =>
             LocalsLayout(functions[frames'[1].fn + 1], args, frames'[1].locals)]_vars

(***************************************************************************)
(* C21.  Interpreter errors propagate immediately: once an instruction at  *)
(* any block or call nesting depth has returned an Error, every step of    *)
(* the run hands the same Error to the next enclosing list or to the       *)
(* calling frame, no instruction executes (no stack, locals or memory      *)
(* changes), and Module.call returns that Error kind.                      *)
(***************************************************************************)
ErrorPending == IsRunning /\ ret.kind = "Err"

ErrorPropagationStep ==
    ErrorPending =>
        /\ memory' = memory
        /\ IF InBlock
           THEN /\ outcome' = outcome /\ ret' = ret
                /\ frames' = [frames EXCEPT ![Len(frames)].ctrl =
                                               SubSeq(@, 1, Len(@) - 1)]
           ELSE IF Len(frames) > 1
           THEN /\ outcome' = outcome /\ ret' = ret
                /\ frames' = SubSeq(frames, 1, Len(frames) - 1)
           ELSE /\ outcome'.kind = "Err" /\ outcome'.what = ret.what
                /\ frames' = << >>

C21_ErrorsPropagate == [][ErrorPropagationStep]_vars

\* an Error raised inside a block of a callee has reached Module.call's caller
C21_Witness ==
    /\ outcome.kind = "Err"
    /\ hist.raised.kind = "Err" /\ hist.raised.frame >= 2 /\ hist.raised.level >= 2

(***************************************************************************)
(* The byte buffers the parser is run on: standard LEB128 encodings of     *)
(* numbers around every group boundary, cut and over-long encodings, and   *)
(* preambles.                                                              *)
(***************************************************************************)
\* x >> 7 of a pair <<lo, hi>>: the low word takes the low 7 bits of the
\* high word as its top bits
Shr7Low(x) ==
    (IF x[1] >= 0 THEN x[1] \div 128 ELSE (x[1] \div 128) + 33554432)
    + (IF x[2] % 128 >= 64 THEN (x[2] % 128) - 128 ELSE x[2] % 128) * 33554432
Shr7U(x) == <<Shr7Low(x), IF x[2] >= 0 THEN x[2] \div 128 ELSE (x[2] \div 128) + 33554432>>
Shr7S(x) == <<Shr7Low(x), x[2] \div 128>>

\* the standard unsigned LEB128 encoding of the u64 x
RECURSIVE EncodeU(_)
EncodeU(x) ==
    IF Shr7U(x) = <<0, 0>> THEN <<x[1] % 128>>
    ELSE <<(x[1] % 128) + 128>> \o EncodeU(Shr7U(x))

\* the standard signed LEB128 encoding of the i64 x
RECURSIVE EncodeS(_)
EncodeS(x) ==
    IF \/ Shr7S(x) = <<0, 0>> /\ x[1] % 128 < 64
       \/ Shr7S(x) = <<-1, -1>> /\ x[1] % 128 >= 64
    THEN <<x[1] % 128>>
    ELSE <<(x[1] % 128) + 128>> \o EncodeS(Shr7S(x))

\* 2^k as a pair, k in 0..63
Pow2(k) ==
    IF k < 31 THEN <<2 ^ k, 0>>
    ELSE IF k = 31 THEN <<I32_MIN, 0>>
    ELSE IF k < 63 THEN <<0, 2 ^ (k - 32)>>
    ELSE <<0, I32_MIN>>

\* the exponents next to the 7-bit group boundaries and the word boundary
Exponents == {0, 6, 7, 13, 14, 31, 32, 35, 56, 62, 63}

NumbersU ==
    {Pow2(k) : k \in Exponents} \cup {Diff64(Pow2(k), <<1, 0>>) : k \in Exponents}
    \cup {<<-1, -1>>, <<624485, 0>>}
NumbersS ==
    NumbersU \cup {Neg64(x) : x \in NumbersU}
    \cup {Diff64(Neg64(Pow2(k)), <<1, 0>>) : k \in Exponents \ {63}}

\* <<number, encoding>>
EncodingsU == {<<x, EncodeU(x)>> : x \in NumbersU}
EncodingsS == {<<x, EncodeS(x)>> : x \in NumbersS}

\* an encoding followed by another byte, and after a leading byte
Framed(e) == {e \o <<5>>, <<7>> \o e}

\* encodings cut before their last byte, and one of 11 bytes
CutBuffers ==
    {<< >>, <<128>>, <<7, 255>>, <<255, 255, 255>>,
     SubSeq(EncodeU(<<-1, -1>>), 1, 9), SubSeq(EncodeS(<<0, I32_MIN>>), 1, 9)}
LongBuffers ==
    {<<128, 128, 128, 128, 128, 128, 128, 128, 128, 128, 1>>,
     <<255, 255, 255, 255, 255, 255, 255, 255, 255, 255, 127>>,
     <<255, 255, 255, 255, 255, 255, 255, 255, 255, 127>>}

\* preambles: whole, cut at every length, with a wrong byte, with a section
PreambleBuffers ==
    {SubSeq(Magic \o Version, 1, n) : n \in 0..8}
    \cup {SubSeq([Magic \o Version EXCEPT ![i] = 9], 1, n) : i \in 1..8, n \in 3..8}
    \cup {Magic \o Version \o <<1, 1, 0>>, <<0, 97, 115, 109, 2, 0, 0, 0, 1, 1, 0>>,
          <<1, 2, 3, 4, 5>>}

Buffers ==
    UNION {Framed(e[2]) : e \in EncodingsU \cup EncodingsS}
    \cup CutBuffers \cup LongBuffers \cup PreambleBuffers

\* the buffers with the build they are read in: the builds differ from the
\* eleventh byte of an encoding on, so the release build is run on the cut,
\* the long and the preamble buffers only
ReaderInputs ==
    (Buffers \X {TRUE})
    \cup ((CutBuffers \cup LongBuffers \cup PreambleBuffers) \X {FALSE})

\* the most bytes one read_bytes call asks for
MaxCount == 2

(***************************************************************************)
(* The parser's steps.                                                     *)
(***************************************************************************)
interpreter_vars == <<functions, exports, memory, frames, ret, outcome, hist>>

\* the reader can be used: no error was returned through `?`, no panic
Readable == reader.res.kind \in {"New", "Ok"} /\ reader.op # "parse_wasm"

Read_byte ==
    /\ Readable
    /\ reader' = read_byte(reader)
    /\ UNCHANGED interpreter_vars

Read_bytes ==
    /\ Readable
    /\ \E count \in 0..MaxCount : reader' = read_bytes(reader, count)
    /\ UNCHANGED interpreter_vars

Read_int ==
    /\ Readable
    /\ \E I \in {"u64", "u32"} : reader' = read_int(reader, I)
    /\ UNCHANGED interpreter_vars

Read_signed_int ==
    /\ Readable
    /\ \E I \in {"i64", "i32"} : reader' = read_signed_int(reader, I)
    /\ UNCHANGED interpreter_vars

\* parse_wasm on the file's bytes, up to the end of the preamble check
Parse_wasm ==
    /\ reader.op = "new"
    /\ reader' = [reader EXCEPT !.op = "parse_wasm",
                                !.res = parse_wasm_preamble(reader.content)]
    /\ UNCHANGED interpreter_vars

ParserInit ==
    /\ \E input \in ReaderInputs : reader = ByteReader(input[1], input[2])
    /\ functions = << >>
    /\ exports = << >>
    /\ memory = Memory_default
    /\ frames = << >>
    /\ ret = NoRet
    /\ outcome = NotCalled
    /\ hist = HistInit

ParserNext ==
    \/ Read_byte
    \/ Read_bytes
    \/ Read_int
    \/ Read_signed_int
    \/ Parse_wasm

ParserSpec == ParserInit /\ [][ParserNext]_vars

(***************************************************************************)
(* C22.  LEB128 round trip: decoding the standard unsigned LEB128 encoding *)
(* of a u64 v returns v and consumes exactly the bytes of the encoding;    *)
(* decoding the standard signed encoding of an i64 v returns v (sign       *)
(* extended where the last group's sign bit is set and fewer than 64 bits  *)
(* were accumulated) and consumes exactly the bytes of the encoding.       *)
(***************************************************************************)
\* the bytes at the cursor are the encoding e
EncodedAt(e) ==
    /\ reader.offset + Len(e) <= Len(reader.content)
    /\ SubSeq(reader.content, reader.offset + 1, reader.offset + Len(e)) = e

\* the step was the read `op` for the type I
Reads(op, I) == Readable /\ reader'.op = op /\ reader'.I = I

Decoded(e) ==
    /\ reader'.res.kind = "Ok" /\ reader'.res.v = e[1]
    /\ reader'.offset = reader.offset + Len(e[2])
    /\ reader'.content = reader.content

C22_LebRoundTrip ==
    [][/\ \A e \in EncodingsU :
             (Reads("read_int", "u64") /\ EncodedAt(e[2])) => Decoded(e)
       /\ \A e \in EncodingsS :
             (Reads("read_signed_int", "i64") /\ EncodedAt(e[2])) => Decoded(e)]_vars

\* the two bytes BF 7F after a leading byte have been decoded as -65
C22_Witness ==
    /\ reader.op = "read_signed_int" /\ reader.I = "i64"
    /\ reader.content = <<7, 191, 127>> /\ reader.offset = 3
    /\ reader.res.kind = "Ok" /\ reader.res.v = <<-65, -1>>

(***************************************************************************)
(* C23.  Every ByteReader read that runs out of bytes reports EndOfData    *)
(* instead of aborting: read_byte with the cursor at or past the end,      *)
(* read_bytes(n) with fewer than n bytes left, and a LEB128 read whose     *)
(* last available byte still has the continuation bit set or that starts   *)
(* at the end of the buffer.  The code does not do this for the LEB128     *)
(* reads: the decoders index the slice without a check.                    *)
(***************************************************************************)
BytesLeft == Len(reader.content) - reader.offset

\* every byte from the cursor on has the continuation bit (none is left
\* when the cursor is at the end)
LebRunsOut ==
    \A i \in (reader.offset + 1)..Len(reader.content) : reader.content[i] >= 128

ReportsEndOfData == reader'.res.kind = "Err" /\ reader'.res.what = "EndOfData"

C23_EndOfData ==
    [][/\ (Readable /\ reader' = read_byte(reader) /\ BytesLeft <= 0)
             => ReportsEndOfData
       /\ \A count \in 0..MaxCount :
             (Readable /\ reader' = read_bytes(reader, count) /\ BytesLeft < count)
                => ReportsEndOfData
       /\ (Readable /\ reader'.op \in {"read_int", "read_signed_int"} /\ LebRunsOut)
             => ReportsEndOfData]_vars

(***************************************************************************)
(* C24.  Preamble check: for every input byte buffer, parsing fails with   *)
(* InvalidInput iff the first four bytes are not 00 61 73 6D (checked      *)
(* first), and otherwise fails with BadVersion iff the next four bytes are *)
(* not 01 00 00 00; no section is decoded and no module is produced when   *)
(* either check fails, also for buffers shorter than 8 bytes.  The code    *)
(* does not do this for the short buffers: the range index panics.         *)
(***************************************************************************)
\* the buffer has the bytes `want` from byte `from` (counted from 0) on
HasBytes(buf, from, want) ==
    Len(buf) >= from + Len(want) /\ SubSeq(buf, from + 1, from + Len(want)) = want

FailsWith(e) == reader'.res.kind = "Err" /\ reader'.res.what = e

C24_PreambleCheck ==
    [][(reader.op = "new" /\ reader'.op = "parse_wasm") =>
          /\ FailsWith("InvalidInput") <=> ~HasBytes(reader.content, 0, <<0, 97, 115, 109>>)
          /\ HasBytes(reader.content, 0, <<0, 97, 115, 109>>) =>
                (FailsWith("BadVersion") <=> ~HasBytes(reader.content, 4, <<1, 0, 0, 0>>))
          /\ reader'.res.kind = "Ok" =>
                /\ HasBytes(reader.content, 0, <<0, 97, 115, 109>>)
                /\ HasBytes(reader.content, 4, <<1, 0, 0, 0>>)]_vars

(***************************************************************************)
(* Building a module: the add_export calls of the export section decoder   *)
(* or of any other driver, on a module that has no export yet.             *)
(***************************************************************************)
ExportNames == {"main", "inner", "mem"}
ExportValues ==
    {Export("Function", 0), Export("Function", 1), Export("Table", 0),
     Export("Memory", 0), Export("Global", 0)}

Add_export ==
    /\ \E name \in ExportNames, export \in ExportValues :
          LET r == add_export(exports, name, export)
          IN  /\ exports' = r.exports
              /\ hist' = [hist EXCEPT
                            !.add = [name |-> name, export |-> export,
                                     ok |-> r.ok, err |-> r.err],
                            !.first = IF r.ok /\ name \notin DOMAIN @
                                      THEN [n \in DOMAIN @ \cup {name} |->
                                               IF n = name THEN export ELSE @[n]]
                                      ELSE @]
    /\ UNCHANGED <<reader, functions, memory, frames, ret, outcome>>

BuildInit ==
    /\ reader = ByteReader(<< >>, TRUE)
    /\ functions = << >>
    /\ exports = << >>
    /\ memory = Memory_default
    /\ frames = << >>
    /\ ret = NoRet
    /\ outcome = NotCalled
    /\ hist = HistInit

BuildNext == Add_export

BuildSpec == BuildInit /\ [][BuildNext]_vars

(***************************************************************************)
(* C25.  Adding an export whose name is already present fails with         *)
(* Misc(reason) and leaves the export map unchanged, so that after any     *)
(* sequence of add_export calls every name maps to the export of the first *)
(* successful add under that name.  The code fails with                    *)
(* UnexpectedData(reason), not Misc.                                       *)
(***************************************************************************)
\* an add_export call under a name that was present has just returned
AddedPresentName == hist'.add # hist.add /\ hist'.add.name \in DOMAIN exports

C25_DuplicateExportMisc ==
    [][AddedPresentName =>
          /\ ~hist'.add.ok /\ hist'.add.err = "Misc"
          /\ exports' = exports]_vars

(***************************************************************************)
(* C25, amended.  Adding an export whose name is already present fails     *)
(* with UnexpectedData(reason) and leaves the export map unchanged, so     *)
(* that after any sequence of add_export calls every name maps to the      *)
(* export of the first successful add under that name.                     *)
(***************************************************************************)
FirstAddStays == exports = hist.first

C25_DuplicateExport ==
    /\ [](FirstAddStays)
    /\ [][AddedPresentName =>
             /\ ~hist'.add.ok /\ hist'.add.err = "UnexpectedData"
             /\ exports' = exports]_vars

\* a second add under "main" with another export has failed and "main" still
\* maps to the first one
C25_Witness ==
    /\ ~hist.add.ok /\ hist.add.name = "main"
    /\ exports["main"] = Export("Function", 0)
    /\ hist.add.export = Export("Memory", 0)

(***************************************************************************)
(* C26.  Module.call with a name that is not exported, that is exported as *)
(* a table, memory or global, or whose function index is not below the     *)
(* number of functions fails with Misc before any instruction is executed  *)
(* and leaves the linear memory unchanged.                                 *)
(***************************************************************************)
NotCallable(name) ==
    \/ name \notin DOMAIN exports
    \/ exports[name].kind \in {"Table", "Memory", "Global"}
    \/ exports[name].index >= Len(functions)

C26_CallOfBadName ==
    /\ [][\A name \in Names, args \in ArgVectors :
             (Module_call(name, args) /\ NotCallable(name)) =>
                /\ outcome'.kind = "Err" /\ outcome'.what = "Misc"
                /\ frames' = << >> /\ ret' = NoRet
                /\ memory' = memory /\ hist' = hist]_vars
    /\ [][outcome.kind = "Err" => vars' = vars]_vars

\* Module.call has failed with Misc and nothing has run
C26_Witness ==
    /\ outcome.kind = "Err" /\ outcome.what = "Misc"
    /\ frames = << >>
    /\ hist = HistInit
    /\ Len(functions) = 2 /\ memory.len > 0

(***************************************************************************)
(* C27.  pop_value on an empty stack and fetch_value (peek) on an empty    *)
(* stack, or with an offset not below the stack depth, return              *)
(* StackViolation and leave the stack unchanged; they never abort and      *)
(* never return a value.  The code does not do this for the peek: the      *)
(* index `stack_size - 1 - offset` is computed first and underflows.       *)
(***************************************************************************)
\* the instructions that start with stack.pop_value(), and the one that
\* peeks with fetch_value(0)
PopsFirst == {"LocalSet", "IBinOp", "BranchIf", "Load", "Store"}

StackViolationStep ==
    /\ outcome' = outcome
    /\ ret' = Err("StackViolation")
    /\ frames' = frames
    /\ memory' = memory

C27_StackViolation ==
    [][(Fetching /\ Len(Top.stack) = 0 /\ Cur.op \in PopsFirst \cup {"LocalTee"})
          => StackViolationStep]_vars

(***************************************************************************)
(* The function "count" of the loop example: (i64) -> i64 with one i64     *)
(* local; the accumulator is local 1, the counter is the argument.         *)
(***************************************************************************)
LoopBody ==
    <<LocalGet(1), LocalGet(0), IBinOp("I64", "Add"), LocalSet(1),
      LocalGet(0), I64Const(1, 0), IBinOp("I64", "Sub"), LocalTee(0),
      I64Const(0, 0), RelOp("I64", "GtS"), BranchIf(0)>>

count ==
    Function(<<"I64">>, <<"I64">>, <<"I64">>, <<Block("Loop", LoopBody), LocalGet(1)>>)

\* the largest argument of count
MaxN == 5

CountArgs == {<<Value_new("I64", n, 0)>> : n \in 0..MaxN}

CountInit ==
    /\ functions = <<count>>
    /\ exports = Exports
    /\ memory = Memory_default
    /\ reader = ByteReader(<< >>, TRUE)
    /\ frames = << >>
    /\ ret = NoRet
    /\ outcome = NotCalled
    /\ hist = HistInit

Call_count == \E args \in CountArgs : Module_call("main", args)

CountNext ==
    \/ Call_count
    \/ Exec_Const
    \/ Exec_IBinOp
    \/ Exec_RelOp
    \/ Exec_LocalGet
    \/ Exec_LocalSet
    \/ Exec_LocalTee
    \/ Exec_BranchIf
    \/ Exec_Block
    \/ Block_step
    \/ Block_end
    \/ Function_step
    \/ Function_end

\* the interpreter runs a call to its end: Module::call does not return
\* before Function::call does
CountSpec == CountInit /\ [][CountNext]_vars /\ WF_vars(CountNext)

(***************************************************************************)
(* C28.  The function count, called with n >= 1, terminates, executes the  *)
(* loop body exactly n times and returns the i64 n(n+1)/2.                 *)
(* The body is counted by the counter it decrements once per execution:    *)
(* every execution starts with a counter in 1..n, the counter goes down    *)
(* by one at a time, and the loop is left when it is 0.                    *)
(***************************************************************************)
Triangle(k) == (k * (k + 1)) \div 2

\* the argument of the call
CountN == hist.args[1].lo
CountCalled == outcome # NotCalled /\ CountN >= 1
I64Of(k) == from_explicit_type("I64", k, 0)
I64Is(v, k) == v.t = "I64" /\ as_i64_unchecked(v) = {<<k, 0>>}

\* the loop is about to execute the first instruction of its body
BodyStarts == Fetching /\ Act.cont = "Loop" /\ Act.pc = 1
\* the loop has been left: the function goes on behind the Block
LoopLeft == IsRunning /\ Act.cont = "Function" /\ (Act.pc > 1 \/ ret # NoRet)

CountReturned(n) == outcome.kind = "Ok" /\ I64Is(outcome.v, Triangle(n))

CountLoopInvariant ==
    CountCalled =>
        /\ outcome.kind \in {"Running", "Ok"}
        /\ outcome.kind = "Ok" => CountReturned(CountN)
        /\ BodyStarts =>
              \E k \in 1..CountN :
                 /\ I64Is(Top.locals[1], k)
                 /\ I64Is(Top.locals[2], Triangle(CountN) - Triangle(k))
        /\ LoopLeft => I64Is(Top.locals[1], 0)

CounterStep ==
    (CountCalled /\ IsRunning /\ frames' # << >>) =>
        \/ Top'.locals[1] = Top.locals[1]
        \/ /\ Cur.op = "LocalTee"
           /\ \E k \in 1..CountN :
                 I64Is(Top.locals[1], k) /\ I64Is(Top'.locals[1], k - 1)

C28_LoopSum ==
    /\ []CountLoopInvariant
    /\ [][CounterStep]_vars
    /\ \A n \in 1..MaxN :
          (outcome # NotCalled /\ CountN = n) ~> CountReturned(n)

C28_Witness ==
    /\ outcome.kind = "Ok" /\ CountN = 5
    /\ outcome.v = I64Of(15)

(***************************************************************************)
(* C29.  BranchIf(n) pops exactly one value and yields Branch(n) iff that  *)
(* value, read as an i32, is nonzero and None iff it is zero, whatever     *)
(* instruction produced the i32.  The code reads the i64 member of the     *)
(* union instead, so the decision also depends on the high word, which     *)
(* i32.const and a fresh i32 local never wrote.                            *)
(***************************************************************************)
BranchIfOnI32 ==
    /\ Fetching /\ Cur.op = "BranchIf"
    /\ Len(Top.stack) > 0
    /\ Top.stack[Len(Top.stack)].t = "I32"

BranchIfDecides ==
    LET condition == as_i32_unchecked(Top.stack[Len(Top.stack)])
    IN  /\ outcome' = outcome
        /\ Top'.stack = SubSeq(Top.stack, 1, Len(Top.stack) - 1)
        /\ ret' = IF condition = 0 THEN CI_None ELSE CI_Branch(Cur.index)

C29_BranchIfDecision == [][BranchIfOnI32 => BranchIfDecides]_vars

(***************************************************************************)
(* C30.  i32.wrap_i64 applied to a value tagged i64 with payload v         *)
(* succeeds and pushes a value tagged i32 equal to the low 32 bits of v.   *)
(* The code's type test for Wrap asks for an operand tagged I32, so the    *)
(* i64 operand is refused.                                                 *)
(***************************************************************************)
WrapOfI64 ==
    /\ Fetching /\ Cur.op = "CvtOp" /\ Cur.kind = "Wrap"
    /\ Len(Top.stack) > 0
    /\ Top.stack[Len(Top.stack)].t = "I64"

WrapPushesLowWord ==
    LET op == Top.stack[Len(Top.stack)]
    IN  /\ outcome' = outcome
        /\ ret' = CI_None
        /\ Len(Top'.stack) = Len(Top.stack)
        /\ SubSeq(Top'.stack, 1, Len(Top.stack) - 1)
              = SubSeq(Top.stack, 1, Len(Top.stack) - 1)
        /\ Top'.stack[Len(Top.stack)].t = "I32"
        /\ as_i32_unchecked(Top'.stack[Len(Top.stack)]) = op.lo

C30_WrapI64 == [][WrapOfI64 => WrapPushesLowWord]_vars

(***************************************************************************)
(* C31.  A numeric instruction whose popped operand tags are not all equal *)
(* to the operand type it was decoded for fails with Misc and pushes no    *)
(* result.  RelOp::execute compares the two tags with each other only, so  *)
(* a comparison decoded for I64 takes two I32 operands and compares them   *)
(* as i64.                                                                 *)
(***************************************************************************)
\* the number of operands a numeric instruction pops
Arity(inst) == IF inst.op = "CvtOp" THEN 1 ELSE 2

\* the operand type an instruction was decoded for
DecodedFor(inst) ==
    CASE inst.op \in {"IBinOp", "RelOp"} -> inst.t
      [] inst.op = "CvtOp" /\ inst.kind = "Wrap" -> "I64"
      [] inst.op = "CvtOp" /\ inst.kind \in {"ExtendS", "ExtendU"} -> "I32"
      [] inst.op = "CvtOp" /\ inst.kind \in {"ConvertS", "ConvertU"} -> inst.t

\* a numeric instruction is about to pop operands that are not all of the
\* type it was decoded for
OperandMismatch ==
    /\ Fetching /\ Cur.op \in {"IBinOp", "RelOp", "CvtOp"}
    /\ Len(Top.stack) >= Arity(Cur)
    /\ \E i \in 0..(Arity(Cur) - 1) : Top.stack[Len(Top.stack) - i].t # DecodedFor(Cur)

FailsWithMismatch ==
    /\ outcome' = outcome
    /\ ret' = Err("Misc")
    /\ Top'.stack = SubSeq(Top.stack, 1, Len(Top.stack) - Arity(Cur))

C31_OperandTypeChecking == [][OperandMismatch => FailsWithMismatch]_vars

(***************************************************************************)
(* C32.  For a payload whose value is exactly representable in the target  *)
(* float, convert_s yields the float equal to the payload read as a signed *)
(* integer and convert_u the float equal to the payload read as unsigned.  *)
(* In the code the two arms are exchanged.                                 *)
(***************************************************************************)
\* the position of the lowest set bit of m # 0
LowBit(m) == CHOOSE i \in 0..63 : BV_bit(m, i) = 1 /\ \A j \in 0..(i - 1) : BV_bit(m, j) = 0

\* the integer m is a float of precision p
ExactlyRepresentable(m, p) ==
    BV_is_zero(m) \/ TopBit(m) - LowBit(m) + 1 <= p

ConvertRuns ==
    /\ Fetching /\ Cur.op = "CvtOp" /\ Cur.kind \in {"ConvertS", "ConvertU"}
    /\ Len(Top.stack) > 0
    /\ Top.stack[Len(Top.stack)].t = Cur.t

\* the integer the instruction is to convert
ConvertedInteger ==
    LET op == Top.stack[Len(Top.stack)]
    IN  Convert_reading_BySignedness(Cur.kind, Cur.t, op.lo, op.hi)

ConvertRespectsSignedness ==
    LET x == ConvertedInteger
    IN  ExactlyRepresentable(x.m, IF Cur.bitwidth = 32 THEN 24 ELSE 53) =>
           /\ outcome' = outcome
           /\ ret' = CI_None
           /\ Top'.stack = Append(SubSeq(Top.stack, 1, Len(Top.stack) - 1),
                                  FloatValue(x.neg, x.m, Cur.bitwidth))

C32_ConvertSignedness == [][ConvertRuns => ConvertRespectsSignedness]_vars

(***************************************************************************)
(* The decoder of function bodies: the loop of the code section calls      *)
(* read_inst until it returns Ok(None) or an error.                        *)
(***************************************************************************)
\* encoded instructions: control opcodes with their immediates, blocks with
\* a body, and instructions of the other groups
ControlPieces ==
    {<<12, 0>>, <<12, 1>>, <<13, 0>>, <<13, 2>>, <<15>>, <<16, 0>>, <<16, 3>>,
     <<2, 64, 65, 1, 11>>, <<3, 64, 12, 0, 11>>, <<2, 64, 3, 64, 13, 1, 11, 11>>}

OtherPieces ==
    {<<32, 0>>, <<33, 1>>, <<34, 2>>, <<40, 2, 0>>, <<54, 2, 4>>, <<65, 127>>,
     <<66, 128, 127>>, <<67, 0, 0, 128, 63>>, <<106>>, <<124>>, <<85>>, <<167>>,
     <<69>>, <<252, 0>>, <<252, 9>>, <<0>>, <<26>>, <<4, 64>>, <<14, 0, 0>>}

CodePieces == ControlPieces \cup OtherPieces

\* bodies of up to two instructions with the terminator, and bodies cut
\* inside an immediate
CodeBuffers ==
    {p \o <<11>> : p \in CodePieces}
    \cup {p \o q \o <<11>> : p \in CodePieces, q \in CodePieces}
    \cup {<< >>, <<32>>, <<12>>, <<65, 128>>, <<67, 0>>, <<252>>, <<40, 2>>}

Read_inst ==
    /\ Readable
    /\ ~(reader.op = "read_inst" /\ reader.res.inst = << >>)
    /\ reader' = read_inst(reader)
    /\ UNCHANGED interpreter_vars

DecoderInit ==
    /\ \E code \in CodeBuffers : reader = ByteReader(code, TRUE)
    /\ functions = << >>
    /\ exports = << >>
    /\ memory = Memory_default
    /\ frames = << >>
    /\ ret = NoRet
    /\ outcome = NotCalled
    /\ hist = HistInit

DecoderNext == Read_inst

DecoderSpec == DecoderInit /\ [][DecoderNext]_vars

(***************************************************************************)
(* C33.  A first byte 0x0C, 0x0D, 0x0F or 0x10 decodes to Branch,          *)
(* BranchIf, Return or Call with its index immediate, 0x02 / 0x03 decode   *)
(* to a Block with Branch / Loop continuation, and none of these bytes     *)
(* yields UnknownOpcode.  The match of read_inst has no arm for any of     *)
(* them.                                                                   *)
(***************************************************************************)
ControlOpcodes == {2, 3, 12, 13, 15, 16}

\* read_inst is called with a control opcode as the next byte; an index
\* immediate of one byte follows where the opcode has one
AtControlOpcode ==
    /\ reader.offset < Len(reader.content)
    /\ reader.content[reader.offset + 1] \in ControlOpcodes
    /\ reader.content[reader.offset + 1] \in {12, 13, 16} =>
          /\ reader.offset + 1 < Len(reader.content)
          /\ reader.content[reader.offset + 2] < 128

DecodesControl ==
    LET opcode == reader.content[reader.offset + 1]
        immediate == reader.content[reader.offset + 2]
        res == reader'.res
    IN  /\ ~(res.kind = "Err" /\ res.what = "UnknownOpcode")
        /\ res.kind = "Ok" /\ Len(res.inst) = 1
        /\ CASE opcode = 12 -> res.inst[1] = Branch(immediate)
             [] opcode = 13 -> res.inst[1] = BranchIf(immediate)
             [] opcode = 15 -> res.inst[1] = Return
             [] opcode = 16 -> res.inst[1] = Call(immediate)
             [] opcode = 2 -> res.inst[1].op = "Block" /\ res.inst[1].kind = "Branch"
             [] opcode = 3 -> res.inst[1].op = "Block" /\ res.inst[1].kind = "Loop"

C33_ControlOpcodes == [][(Read_inst /\ AtControlOpcode) => DecodesControl]_vars

(***************************************************************************)
(* C34.  A newly created Memory(min, max) reads as zero at every address   *)
(* inside its virtual size: before any Store has executed, every in-bounds *)
(* load returns payload 0 and the backing buffer holds no nonzero byte.    *)
(* Memory::new ends with a write of the word PAGE_SIZE * min at address 4. *)
(***************************************************************************)
\* the memory is as Memory::new made it
FreshMemory ==
    /\ memory.virtual_size_pages >= 1
    /\ memory = Memory_new(memory.virtual_size_pages, memory.upper_limit_pages)

BufferIsZero == \A i \in DOMAIN memory.bytes : memory.bytes[i] = 0

LoadOfFreshMemory ==
    /\ LoadRuns /\ FreshMemory
    /\ AccessAddress(Cur, Top.stack) >= 0
    /\ AccessAddress(Cur, Top.stack) + (Cur.bitwidth \div 8)
          <= memory.virtual_size_pages * PAGE_SIZE

LoadsZero ==
    LET after == frames'[Len(frames')]
    IN  /\ outcome' = outcome
        /\ ret' = CI_None
        /\ Len(after.stack) = Len(Top.stack)
        /\ after.stack[Len(after.stack)].lo = 0
        /\ after.stack[Len(after.stack)].hi = 0

C34_FreshMemoryIsZero ==
    /\ [](FreshMemory => BufferIsZero)
    /\ [][LoadOfFreshMemory => LoadsZero]_vars

(***************************************************************************)
(* C35.  For each of the four numeric types and every pair of operands of  *)
(* that type, `ne` pushes the logical negation of what `eq` pushes for the *)
(* same operands, and both push a value tagged i32 in {0, 1}.  The float   *)
(* arms of RelOp::execute compute Neq with eq.                             *)
(***************************************************************************)
\* eq or ne is about to run on two operands of its type, all of whose bits
\* it reads are written
EqOrNeRuns ==
    /\ Fetching /\ Cur.op = "RelOp" /\ Cur.kind \in {"Eq", "Neq"}
    /\ Len(Top.stack) >= 2
    /\ \A i \in 0..1 :
          /\ Top.stack[Len(Top.stack) - i].t = Cur.t
          /\ Cur.t \in {"I64", "F64"} => Top.stack[Len(Top.stack) - i].hi_init

\* what eq pushes for the operands on the stack
EqPushes ==
    LET r == CHOOSE r \in RelOp_execute([Cur EXCEPT !.kind = "Eq"], Top.stack, memory,
                                        Top.locals) : TRUE
    IN  as_i32_unchecked(r.stack[Len(r.stack)])

NeNegatesEq ==
    LET pushed == Top'.stack[Len(Top.stack) - 1]
    IN  /\ outcome' = outcome /\ ret' = CI_None
        /\ Len(Top'.stack) = Len(Top.stack) - 1
        /\ pushed.t = "I32"
        /\ as_i32_unchecked(pushed) \in {0, 1}
        /\ EqPushes \in {0, 1}
        /\ as_i32_unchecked(pushed) = IF Cur.kind = "Eq" THEN EqPushes ELSE 1 - EqPushes

C35_NeNegatesEq == [][EqOrNeRuns => NeNegatesEq]_vars

(***************************************************************************)
(* C36.  A branch never unwinds the value stack: when a Block is exited or *)
(* a Loop is restarted by a Branch, the value stack and the locals are as  *)
(* the branching instruction left them; only the control position changes. *)
(***************************************************************************)
\* Branch::execute runs
BranchRuns == Fetching /\ Cur.op = "Branch"
\* a Block matches a Branch token of its body
BlockGetsBranch == InBlock /\ ret.kind = "Branch"

OnlyControlChanges ==
    /\ Len(frames') = Len(frames)
    /\ \A i \in 1..Len(frames) :
          /\ frames'[i].stack = frames[i].stack
          /\ frames'[i].locals = frames[i].locals
    /\ memory' = memory
    /\ outcome' = outcome

C36_BranchKeepsStack ==
    [][(BranchRuns \/ BlockGetsBranch) => OnlyControlChanges]_vars

\* the inner block has been left by `br 1` with the 5 and the 7 pushed
\* before the branch still on the stack, and the outer block is being left
C36_Witness ==
    /\ IsRunning /\ ret = CI_Branch(0)
    /\ Act.cont = "Branch" /\ Len(Top.ctrl) = 2
    /\ Cur.op = "Block" /\ Cur.instructions = <<I32Const(7), Branch(1), I32Const(9)>>
    /\ Top.stack = <<Value_new("I32", 5, 0), Value_new("I32", 7, 0)>>

(***************************************************************************)
(* C37.  The effective address of a Load or Store is the sum of the popped *)
(* i32 address read as unsigned and the u32 offset, without wrap-around    *)
(* modulo 2^32: an access whose sum is 2^32 or more is not redirected to a *)
(* low address and is out of bounds (the virtual size of every memory here *)
(* is below 2^32 bytes): it yields Trap(MemoryOutOfBounds), pushes nothing *)
(* and leaves the memory as it was.  The store does this; the load aborts. *)
(***************************************************************************)
\* the address operand of the Load or Store about to run
AddressOperand ==
    IF Cur.op = "Store" THEN Top.stack[Len(Top.stack) - 1]
    ELSE Top.stack[Len(Top.stack)]

\* the sum of address and offset is 2^32 or more: it carries out of bit 31
SumCarries(u, offset) ==
    Hi16(u) + Hi16(offset) + (Lo16(u) + Lo16(offset)) \div 65536 >= 65536

FarAccessRuns ==
    /\ LoadRuns \/ StoreRuns
    /\ SumCarries(AddressOperand.lo, Cur.offset)

\* the stack below the operands of the Load or Store about to run
BelowOperands ==
    SubSeq(Top.stack, 1, Len(Top.stack) - (IF Cur.op = "Store" THEN 2 ELSE 1))

AccessOutOfBounds ==
    /\ memory' = memory
    /\ outcome' = outcome
    /\ ret' = CI_Trap("MemoryOutOfBounds")
    /\ frames'[Len(frames')].stack = BelowOperands

LocalExists == Cur.index < Len(Top.locals)
TopOfStack == Top.stack[Len(Top.stack)]

\* stack and locals of the running invocation after the step
AfterLocal(stack, locals) ==
    /\ Len(frames') = Len(frames)
    /\ frames'[Len(frames')].stack = stack
    /\ frames'[Len(frames')].locals = locals
    /\ ret' = CI_None
    /\ outcome' = outcome

LocalGetFrame ==
    (Fetching /\ Cur.op = "LocalGet" /\ LocalExists)
    => AfterLocal(Append(Top.stack, Top.locals[Cur.index + 1]), Top.locals)

LocalSetFrame ==
    (Fetching /\ Cur.op = "LocalSet" /\ LocalExists /\ Len(Top.stack) > 0)
    => AfterLocal(SubSeq(Top.stack, 1, Len(Top.stack) - 1),
                  [Top.locals EXCEPT ![Cur.index + 1] = TopOfStack])

LocalTeeFrame ==
    (Fetching /\ Cur.op = "LocalTee" /\ LocalExists /\ Len(Top.stack) > 0)
    => AfterLocal(Top.stack, [Top.locals EXCEPT ![Cur.index + 1] = TopOfStack])

LocalKeepsMemory ==
    (Fetching /\ Cur.op \in {"LocalGet", "LocalSet", "LocalTee"}) => memory' = memory

C38_LocalAccessFrame ==
    [][LocalGetFrame /\ LocalSetFrame /\ LocalTeeFrame /\ LocalKeepsMemory]_vars

\* local.set 1 has just stored the i64 that local.tee 2 left on the stack:
\* local 0 and local 2 keep what was set before, over a written memory
C38_Witness ==
    /\ IsRunning /\ ret = CI_None
    /\ Cur.op = "LocalSet" /\ Cur.index = 1
    /\ Top.stack = << >>
    /\ Top.locals = <<Value_new("I32", 5, 0), Value_new("I64", 1, 2),
                      Value_new("I64", 1, 2)>>
    /\ 19 \in DOMAIN memory.bytes

====
